---- MODULE Spec2Model ----
(***************************************************************************)
(* jotai-statewatch: single-atom watchers (singleAtomWatcher), the fan-in  *)
(* aggregator (createFanInAggregator) and their wiring (registerCallbacks) *)
(* on a single-threaded JavaScript event loop.                             *)
(*                                                                         *)
(* The event loop is explicit: `sync` says that user code is running       *)
(* synchronously (a macrotask body or a user microtask); `mq` is the       *)
(* microtask queue, drained in FIFO order once the synchronous code has    *)
(* returned.  queueMicrotask(flush) and the continuation of                *)
(* `await cb(event)` in dispatchEvent are entries of `mq`.                 *)
(***************************************************************************)
EXTENDS Naturals, Integers, Sequences, FiniteSets, TLC

\* ------------------------------------------------------------------ bounds
MaxVal == 1          \* atom values are 0..MaxVal
MaxOps == 4          \* calls user code makes, in total (store.set, startWatching,
                     \* stopWatching, dispose, queueMicrotask)

\* ------------------------------------------------------------- the wiring
WatcherIds == {"a", "b"}
Vals == 0..MaxVal
Undefined == -1
Null == 0

\* callbackConfigs, in Object.entries order; watchers is cfg.watchers
CallbackConfigs ==
  << [name |-> "g1", watchers |-> <<"a">>],
     [name |-> "g2", watchers |-> <<"a", "b">>] >>

Range(s) == {s[i] : i \in 1..Len(s)}
AggIds == {CallbackConfigs[i].name : i \in 1..Len(CallbackConfigs)}
Cfg(g) == CHOOSE c \in Range(CallbackConfigs) : c.name = g
Declared(g) == Range(Cfg(g).watchers)

\* ------------------------------------------------------------ JS Map model
EmptyMap == [k \in {} |-> Undefined]
MapHas(m, k) == k \in DOMAIN m
MapGet(m, k) == IF k \in DOMAIN m THEN m[k] ELSE Undefined
MapSet(m, k, v) == [x \in (DOMAIN m) \cup {k} |-> IF x = k THEN v ELSE m[x]]

VARIABLES
  store,          \* [WatcherIds -> Vals]: the atoms' values
  listeners,      \* [WatcherIds -> Seq(handle)]: live store.sub subscriptions
  subCalls,       \* [WatcherIds -> Nat]: store.sub calls made (handle ids)
  unsubCalls,     \* [WatcherIds -> [handle -> Nat]]: calls of each unsubscribe handle
  unsubscribe,    \* [WatcherIds -> handle | Null]
  previousValue,  \* [WatcherIds -> map handle -> value]: closure of a session
  callbacks,      \* [WatcherIds -> Seq([id, fn])]: Map in insertion order
  queued,         \* [AggIds -> map id -> event]
  lastValues,     \* [AggIds -> map id -> value]
  flushScheduled, \* [AggIds -> BOOLEAN]
  unsettled,      \* [AggIds -> how many reaction calls returned a promise not yet settled]
  mq,             \* microtask queue
  sync,           \* user code is running synchronously
  lastEvent,      \* [WatcherIds -> event]: the event last passed to dispatchEvent
  delivered,      \* [AggIds -> snapshot]: argument of the last cfg.callback call
  reacted,        \* the aggregators whose cfg.callback the last step called
  ingested,       \* [AggIds -> map id -> event]: last fanIn argument per id since the last flush
  disposed,       \* [AggIds -> BOOLEAN]: dispose has been called
  ops,            \* calls user code has made that changed the state
  noop,           \* the call of the last step, when it returned without doing anything
  burst,          \* the current synchronous segment: what user code did in it
  logged,         \* the names the last step passed to logger.error with an error
  thrown,         \* the code whose exception left the last step uncaught, or NoThrow
  dispatches,     \* the dispatchEvent calls made to listeners other than fanIn, in order
  interval,       \* createIntervalCallback: the timer handle held, or Null
  timers,         \* the timers setInterval has created, by handle: [armed, ticks]
  mutex,          \* the lock: [holder, waiting], holder 0 when it is free
  invocations,    \* the calls of the interval callback, in order: [pc, ran, caught, outcome]
  ticking,        \* action runs started by timer ticks whose promise is unsettled
  runOnSetup,     \* options.runOnSetup
  acted,          \* how many times the last step called options.action
  failure,        \* where an action failed in the last step: "immediate", "tick" or ""
  cleanedAt,      \* how many calls of the interval callback had been made when
                  \* cleanup was last called, Undefined before its first call
  deregister,     \* createWatcherManager: Null, or the cleanup function held
  watchers,       \* the keys of the `watchers` object, in Object.values order
  cleanupLog,     \* what the last call of registerCallbacks' cleanup did, in order
  lifecycle,      \* [AggIds -> the calls of cfg.setup and cfg.teardown made, in order]
  registryCalls   \* the calls made to a watcher's addCallback, removeCallback and
                  \* removeAllCallbacks, in order, with what each returned

vars == << store, listeners, subCalls, unsubCalls, unsubscribe, previousValue,
           callbacks, queued, lastValues, flushScheduled, unsettled, mq, sync, lastEvent,
           delivered, reacted, ingested, disposed, ops, noop, burst,
           logged, thrown, dispatches,
           interval, timers, mutex, invocations, ticking, runOnSetup, acted,
           failure, cleanedAt, deregister, watchers, cleanupLog,
           lifecycle, registryCalls >>

\* the state of createIntervalCallback
intervalVars ==
  << interval, timers, mutex, invocations, ticking, runOnSetup, acted, failure,
     cleanedAt >>

\* the state of createWatcherManager
managerVars == << deregister, watchers, cleanupLog, lifecycle >>

\* ---------------------------------------------------------------- events
NoEvent == [id |-> "", current |-> Undefined, previous |-> Undefined,
            isInitial |-> FALSE, isChanged |-> FALSE]

\* makeEvent of startWatching; pv is the closure's previousValue when it is called
MakeEvent(watcherId, current, pv, isInitial) ==
  [id |-> watcherId, current |-> current, previous |-> pv,
   isInitial |-> isInitial, isChanged |-> TRUE]

\* variant: the filler's previous is the value just read
SyntheticEvent_PreviousIsCurrent(k, current, last) ==
  [id |-> k, current |-> current, previous |-> current,
   isInitial |-> FALSE, isChanged |-> FALSE]

\* the synthetic noop event of flush
SyntheticEvent(k, current, last) ==
  [id |-> k, current |-> current, previous |-> last,
   isInitial |-> FALSE, isChanged |-> FALSE]

\* ------------------------------------------------------------ microtasks
FlushTask(g) == [kind |-> "flush", who |-> g, event |-> NoEvent, idx |-> 0]
ContTask(w, event, idx) == [kind |-> "cont", who |-> w, event |-> event, idx |-> idx]
UserTask == [kind |-> "user", who |-> "", event |-> NoEvent, idx |-> 0]
\* the handler given to .catch in flush, queued once the promise has rejected
CatchTask(g) == [kind |-> "catch", who |-> g, event |-> NoEvent, idx |-> 0]

\* ---------------------------------------------------------------- failures
NoThrow == ""
\* what a call of user-supplied code does: it returns a value or a promise that
\* fulfils, returns a promise that is rejected, or throws before returning
Outcomes == {"resolve", "reject", "throw"}
\* a step in which nothing is logged as an error and nothing is thrown
NoFailure == logged' = {} /\ thrown' = NoThrow


\* ------------------------------------------------ state threaded through calls
\* The variables a nested call (listener -> dispatchEvent -> fanIn -> flush) can
\* change, as one record, so that the calls of one handler compose.
Heap ==
  [queued |-> queued, lastValues |-> lastValues, flushScheduled |-> flushScheduled,
   unsettled |-> unsettled,
   mq |-> mq, previousValue |-> previousValue, lastEvent |-> lastEvent,
   delivered |-> delivered, reacted |-> {}, ingested |-> ingested,
   burst |-> burst, logged |-> {}, thrown |-> NoThrow, outcome |-> "resolve",
   reentry |-> NoEvent,
   dispatches |-> dispatches]

SetHeap(S) ==
  /\ queued' = S.queued
  /\ lastValues' = S.lastValues
  /\ flushScheduled' = S.flushScheduled
  /\ unsettled' = S.unsettled
  /\ mq' = S.mq
  /\ previousValue' = S.previousValue
  /\ lastEvent' = S.lastEvent
  /\ delivered' = S.delivered
  /\ reacted' = S.reacted
  /\ ingested' = S.ingested
  /\ burst' = S.burst
  /\ logged' = S.logged
  /\ thrown' = S.thrown
  /\ dispatches' = S.dispatches

\* what the current synchronous segment did: pure = it began with an empty
\* microtask queue and has only called store.set; changed = the atoms whose
\* running watcher produced an event in it; reactions = cfg.callback calls since
NewBurst == [pure |-> TRUE, changed |-> {}, reactions |-> [g \in AggIds |-> 0]]
Impure == [pure |-> FALSE, changed |-> {}, reactions |-> [g \in AggIds |-> 0]]
BurstChanged(b, w) == IF b.pure THEN [b EXCEPT !.changed = @ \cup {w}] ELSE b
BurstReaction(b, g) == IF b.pure THEN [b EXCEPT !.reactions[g] = @ + 1] ELSE b

\* ------------------------------------------------------ createFanInAggregator
\* variant: the first event of a turn is kept
QueueEvent_KeepFirst(q, event) ==
  IF MapHas(q, event.id) THEN q ELSE MapSet(q, event.id, event)

\* queued.set(event.id, event)
QueueEvent(q, event) == MapSet(q, event.id, event)

\* variant: fanIn leaves the scheduling to others
ShouldSchedule_Never(scheduled) == FALSE

\* variant: every fanIn queues a flush
ShouldSchedule_Always(scheduled) == TRUE

\* if (!flushScheduled)
ShouldSchedule(scheduled) == ~scheduled

\* variant: only the ids that emitted are delivered
SnapshotKeys_OnlyQueued(g, q) == DOMAIN q

\* the keys flush iterates: cfg.watchers
SnapshotKeys(g, q) == Declared(g)

\* watchers[key].getCurrentValue(): store.get(atom)
GetCurrentValue(st, w) == st[w]

\* one iteration of the forEach of flush: the entry of eventsObject for key k
SnapshotEntry(q, lv, k, st) ==
  IF MapHas(q, k) THEN q[k]
  ELSE SyntheticEvent(k, GetCurrentValue(st, k), MapGet(lv, k))

\* fanIn
FanIn(S, g, event) ==
  LET S1 == [S EXCEPT !.queued[g] = QueueEvent(@, event),
                      !.lastValues[g] = MapSet(@, event.id, event.current),
                      !.ingested[g] = MapSet(@, event.id, event)]
  IN IF ShouldSchedule(S.flushScheduled[g])
     THEN [S1 EXCEPT !.flushScheduled[g] = TRUE,
                     !.mq = Append(@, FlushTask(g))]
     ELSE S1

\* Promise.resolve(cfg.callback(eventsObject)).catch(...): the reaction is
\* called with the snapshot, calls fanIn(S.reentry) of its own aggregator if it
\* is one that emits while it executes, and does S.outcome; a rejection reaches
\* the .catch handler in a later microtask, a throw happens before
\* Promise.resolve is entered and leaves flush, and a promise that is pending
\* is left to settle: flush returns without waiting for it
Callback(S, g, events) ==
  LET S0 == [S EXCEPT !.delivered[g] = events,
                      !.reacted = @ \cup {g},
                      !.burst = BurstReaction(@, g)]
      S1 == IF S.reentry # NoEvent THEN FanIn(S0, g, S.reentry) ELSE S0
  IN CASE S.outcome = "resolve" -> S1
       [] S.outcome = "reject" -> [S1 EXCEPT !.mq = Append(@, CatchTask(g))]
       [] S.outcome = "throw" -> [S1 EXCEPT !.thrown = g]
       [] S.outcome = "pend" -> [S1 EXCEPT !.unsettled[g] = @ + 1]

\* variant: the reaction is invoked before the buffer and the flag are cleared
Flush_ReactsFirst(S, g, st) ==
  LET events == [k \in SnapshotKeys(g, S.queued[g]) |->
                   SnapshotEntry(S.queued[g], S.lastValues[g], k, st)]
      S1 == Callback(S, g, events)
  IN [S1 EXCEPT !.flushScheduled[g] = FALSE,
                !.lastValues[g] = [k \in (DOMAIN @) \cup (DOMAIN events) |->
                                     IF k \in DOMAIN events THEN events[k].current
                                     ELSE @[k]],
                !.queued[g] = EmptyMap,
                !.ingested[g] = EmptyMap]

\* flush, run from the microtask queue or by dispose
Flush(S, g, st) ==
  LET events == [k \in SnapshotKeys(g, S.queued[g]) |->
                   SnapshotEntry(S.queued[g], S.lastValues[g], k, st)]
      lv == [k \in (DOMAIN S.lastValues[g]) \cup (DOMAIN events) |->
               IF k \in DOMAIN events THEN events[k].current
               ELSE S.lastValues[g][k]]
      S1 == [S EXCEPT !.flushScheduled[g] = FALSE,
                      !.lastValues[g] = lv,
                      !.queued[g] = EmptyMap,
                      !.ingested[g] = EmptyMap]
  IN Callback(S1, g, events)

\* variant: dispose never flushes
ForcesFlush_Never(scheduled) == FALSE

\* variant: dispose always flushes
ForcesFlush_Always(scheduled) == TRUE

\* if (flushScheduled), in dispose
ForcesFlush(scheduled) == scheduled

\* dispose; an exception leaving flush leaves dispose before the two clear()
DisposeAggregator(S, g, st) ==
  LET S1 == IF ForcesFlush(S.flushScheduled[g]) THEN Flush(S, g, st) ELSE S
  IN IF S1.thrown # NoThrow THEN S1
     ELSE [S1 EXCEPT !.queued[g] = EmptyMap, !.lastValues[g] = EmptyMap]

\* ---------------------------------------------------------- registerCallbacks
MakeId(callbackName, key) == callbackName \o "_" \o key

\* variant: every registration is a new entry
AddCallback_Appends(cbs, fn, id) == Append(cbs, [id |-> id, fn |-> fn])

\* addCallback: callbacks.set(id, cb); fn names the aggregator whose fanIn cb is
AddCallback(cbs, fn, id) ==
  IF \E i \in 1..Len(cbs) : cbs[i].id = id
  THEN [i \in 1..Len(cbs) |-> IF cbs[i].id = id THEN [id |-> id, fn |-> fn] ELSE cbs[i]]
  ELSE Append(cbs, [id |-> id, fn |-> fn])

RECURSIVE RegisterWatchers(_, _, _, _)
RegisterWatchers(all, callbackName, keys, i) ==
  IF i > Len(keys) THEN all
  ELSE RegisterWatchers(
         [all EXCEPT ![keys[i]] = AddCallback(@, callbackName, MakeId(callbackName, keys[i]))],
         callbackName, keys, i + 1)

RECURSIVE RegisterCallbacks(_, _)
RegisterCallbacks(all, i) ==
  IF i > Len(CallbackConfigs) THEN all
  ELSE RegisterCallbacks(
         RegisterWatchers(all, CallbackConfigs[i].name, CallbackConfigs[i].watchers, 1),
         i + 1)

\* ---------------------------------------------------------- singleAtomWatcher
\* The callbacks Map is its entry list: `set` of a new id appends an entry,
\* `delete` empties the entry in place, and an iterator is a position in the
\* list that passes over emptied entries and reaches entries appended while
\* it runs.
Removed == [id |-> "", fn |-> ""]

\* variant: the entry stays in the Map
RemoveCallback_Kept(cbs, id) == cbs

\* removeCallback: callbacks.delete(id)
RemoveCallback(cbs, id) ==
  [i \in 1..Len(cbs) |-> IF cbs[i].id = id THEN Removed ELSE cbs[i]]

\* the value callbacks.delete(id) returns
RemoveCallbackResult(cbs, id) == \E i \in 1..Len(cbs) : cbs[i].id = id

\* removeAllCallbacks: callbacks.clear()
RemoveAllCallbacks(cbs) == [i \in 1..Len(cbs) |-> Removed]

\* the position of the first entry at or after idx that has not been removed,
\* Len(cbs) + 1 if there is none: the iterator's next()
NextEntry(cbs, idx) ==
  IF \E j \in idx..Len(cbs) : cbs[j] # Removed
  THEN CHOOSE j \in idx..Len(cbs) :
         cbs[j] # Removed /\ \A k \in idx..(j - 1) : cbs[k] = Removed
  ELSE Len(cbs) + 1

\* dispatchEvent from iterator position idx up to its next await: the callback at
\* idx is called, then the continuation of `await cb(event)` is queued
DispatchFrom(S, cbs, w, event, idx) ==
  LET i == NextEntry(cbs, idx)
  IN IF i > Len(cbs) THEN S
     ELSE LET S1 == FanIn(S, cbs[i].fn, event)
          IN [S1 EXCEPT !.mq = Append(@, ContTask(w, event, i + 1))]

DispatchEvent(S, cbs, w, event) == DispatchFrom(S, cbs, w, event, 1)

\* variant: startWatching without the guard
AlreadyWatching_Never(u) == FALSE

\* if (unsubscribe) return; // already watching
AlreadyWatching(u) == u # Null

\* variant: stopWatching drops the handle without calling it
Unsubscribe_NotCalled(ls, h) == ls

\* the handle store.sub returned, called: the store drops listener h
Unsubscribe(ls, h) == SelectSeq(ls, LAMBDA x : x # h)

\* variant: the listener never updates previousValue
NextPrevious_Stale(pv, currentValue) == pv

\* previousValue = currentValue, in the listener
NextPrevious(pv, currentValue) == currentValue

\* the store.sub listener of session h
Listener(S, cbs, st, w, h) ==
  LET currentValue == st[w]
      event == MakeEvent(w, currentValue, S.previousValue[w][h], FALSE)
      S1 == [S EXCEPT !.previousValue[w][h] = NextPrevious(@, currentValue),
                      !.lastEvent[w] = event,
                      !.burst = BurstChanged(@, w)]
  IN DispatchEvent(S1, cbs, w, event)

\* the store notifies every live listener of the atom, in subscription order
RECURSIVE Notify(_, _, _, _, _)
Notify(S, cbs, st, w, hs) ==
  IF hs = <<>> THEN S
  ELSE Notify(Listener(S, cbs, st, w, Head(hs)), cbs, st, w, Tail(hs))

\* a call that returns at once (startWatching while watching, stopWatching while
\* not): nothing changes but the record of the call
NoCall == [op |-> "", who |-> ""]
Returned(op, who) ==
  /\ noop' = [op |-> op, who |-> who]
  /\ reacted' = {}
  /\ NoFailure
  /\ UNCHANGED dispatches
  /\ UNCHANGED << intervalVars, managerVars, registryCalls, store, listeners, subCalls, unsubCalls, unsubscribe,
                  previousValue, callbacks, queued, lastValues, flushScheduled, unsettled,
                  mq, sync, lastEvent, delivered, ingested, disposed, ops, burst >>

\* ------------------------------------------------------------------- Init
\* the state after construction, registered being the watchers' callbacks Maps
InitWith(registered) ==
  /\ store \in [WatcherIds -> {0}]
  /\ listeners = [w \in WatcherIds |-> <<>>]
  /\ subCalls = [w \in WatcherIds |-> 0]
  /\ unsubCalls = [w \in WatcherIds |-> EmptyMap]
  /\ unsubscribe = [w \in WatcherIds |-> Null]
  /\ previousValue = [w \in WatcherIds |-> EmptyMap]
  /\ callbacks = registered
  /\ queued = [g \in AggIds |-> EmptyMap]
  /\ lastValues = [g \in AggIds |-> EmptyMap]
  /\ flushScheduled = [g \in AggIds |-> FALSE]
  /\ unsettled = [g \in AggIds |-> 0]
  /\ mq = <<>>
  /\ sync = TRUE
  /\ lastEvent = [w \in WatcherIds |-> NoEvent]
  /\ delivered = [g \in AggIds |-> EmptyMap]
  /\ reacted = {}
  /\ ingested = [g \in AggIds |-> EmptyMap]
  /\ disposed = [g \in AggIds |-> FALSE]
  /\ ops = 0
  /\ noop = NoCall
  /\ burst = Impure
  /\ logged = {}
  /\ thrown = NoThrow
  /\ dispatches = <<>>
  /\ registryCalls = <<>>
  /\ lifecycle = [g \in AggIds |-> <<>>]
  /\ interval = Null
  /\ timers = <<>>
  /\ mutex = [holder |-> 0, waiting |-> <<>>]
  /\ invocations = <<>>
  /\ ticking = 0
  /\ acted = 0
  /\ failure = ""
  /\ cleanedAt = Undefined
  /\ deregister = Null
  /\ cleanupLog = <<>>

\* the watchers with the aggregators' fanIn registered by registerCallbacks
Init ==
  /\ InitWith(RegisterCallbacks([w \in WatcherIds |-> <<>>], 1))
  /\ runOnSetup = "undefined"
  /\ watchers = << "a", "b" >>

\* ---------------------------------------------------------------- actions
\* store.set(atom, v) by user code; v differs from the value (Object.is)
SetAtom(w, v) ==
  /\ noop' = NoCall
  /\ sync
  /\ ops < MaxOps
  /\ v # store[w]
  /\ store' = [store EXCEPT ![w] = v]
  /\ ops' = ops + 1
  /\ SetHeap(Notify(Heap, callbacks[w], [store EXCEPT ![w] = v], w, listeners[w]))
  /\ UNCHANGED << intervalVars, managerVars, registryCalls, listeners, subCalls, unsubCalls, unsubscribe, callbacks, sync,
                  disposed >>

\* watcher.startWatching()
StartWatching(w) ==
  /\ sync
  /\ IF AlreadyWatching(unsubscribe[w])
     THEN Returned("startWatching", w)
     ELSE /\ ops < MaxOps
          /\ ops' = ops + 1
          /\ noop' = NoCall
          /\ LET h == subCalls[w] + 1
                 initialValue == store[w]
                 pv == initialValue     \* previousValue = initialValue, before makeEvent
                 initialEvent == MakeEvent(w, initialValue, pv, TRUE)
                 S1 == [Heap EXCEPT !.previousValue[w] = MapSet(@, h, pv),
                                    !.lastEvent[w] = initialEvent,
                                    !.burst = Impure]
             IN /\ subCalls' = [subCalls EXCEPT ![w] = h]
                /\ listeners' = [listeners EXCEPT ![w] = Append(@, h)]
                /\ unsubscribe' = [unsubscribe EXCEPT ![w] = h]
                /\ SetHeap(DispatchEvent(S1, callbacks[w], w, initialEvent))
          /\ UNCHANGED << intervalVars, managerVars, registryCalls, store, unsubCalls, callbacks, sync, disposed >>

\* watcher.stopWatching()
StopWatching(w) ==
  /\ sync
  /\ IF unsubscribe[w] # Null
     THEN LET h == unsubscribe[w]
          IN /\ ops < MaxOps
             /\ ops' = ops + 1
             /\ noop' = NoCall
             /\ listeners' = [listeners EXCEPT ![w] = Unsubscribe(@, h)]
             /\ unsubCalls' = [unsubCalls EXCEPT ![w] =
                                 MapSet(@, h, IF MapHas(@, h) THEN @[h] + 1 ELSE 1)]
             /\ previousValue' = [previousValue EXCEPT ![w] =
                                    [x \in Range(Unsubscribe(listeners[w], h)) |-> @[x]]]
             /\ unsubscribe' = [unsubscribe EXCEPT ![w] = Null]
             /\ burst' = Impure
             /\ reacted' = {}
             /\ NoFailure
             /\ UNCHANGED dispatches
             /\ UNCHANGED << intervalVars, managerVars, registryCalls, store, subCalls, callbacks, queued, lastValues,
                             flushScheduled, unsettled, mq, sync, lastEvent, delivered,
                             ingested, disposed >>
     ELSE Returned("stopWatching", w)

\* dispose() of aggregator g; o is what the reaction does if dispose calls it
Dispose(g, o) ==
  /\ noop' = NoCall
  /\ sync
  /\ ops < MaxOps
  /\ ops' = ops + 1
  /\ disposed' = [disposed EXCEPT ![g] = TRUE]
  /\ SetHeap(DisposeAggregator([Heap EXCEPT !.burst = Impure, !.outcome = o], g, store))
  /\ UNCHANGED << intervalVars, managerVars, registryCalls, store, listeners, subCalls, unsubCalls, unsubscribe, callbacks,
                  sync >>

\* user code queues a microtask of its own (queueMicrotask, a resolved await)
QueueUserTask ==
  /\ noop' = NoCall
  /\ sync
  /\ ops < MaxOps
  /\ ops' = ops + 1
  /\ mq' = Append(mq, UserTask)
  /\ reacted' = {}
  /\ NoFailure
  /\ UNCHANGED dispatches
  /\ UNCHANGED << intervalVars, managerVars, registryCalls, store, listeners, subCalls, unsubCalls, unsubscribe,
                  previousValue, callbacks, queued, lastValues, flushScheduled, unsettled,
                  sync, lastEvent, delivered, ingested, disposed, burst >>

\* the synchronous user code returns: the microtask queue drains
EndSync ==
  /\ noop' = NoCall
  /\ sync
  /\ sync' = FALSE
  /\ reacted' = {}
  /\ NoFailure
  /\ UNCHANGED dispatches
  /\ UNCHANGED << intervalVars, managerVars, registryCalls, store, listeners, subCalls, unsubCalls, unsubscribe,
                  previousValue, callbacks, queued, lastValues, flushScheduled, unsettled,
                  mq, lastEvent, delivered, ingested, disposed, ops, burst >>

\* the next macrotask starts, once the microtask queue is empty
BeginTask ==
  /\ noop' = NoCall
  /\ ~sync
  /\ mq = <<>>
  /\ sync' = TRUE
  /\ burst' = NewBurst
  /\ reacted' = {}
  /\ NoFailure
  /\ UNCHANGED dispatches
  /\ UNCHANGED << intervalVars, managerVars, registryCalls, store, listeners, subCalls, unsubCalls, unsubscribe,
                  previousValue, callbacks, queued, lastValues, flushScheduled, unsettled,
                  mq, lastEvent, delivered, ingested, disposed, ops >>

\* microtask: the flush queued by fanIn; o is what the reaction does
RunFlushStep(o) ==
  /\ noop' = NoCall
  /\ ~sync
  /\ mq # <<>>
  /\ Head(mq).kind = "flush"
  /\ SetHeap(Flush([Heap EXCEPT !.mq = Tail(mq), !.outcome = o], Head(mq).who, store))
  /\ UNCHANGED << managerVars, registryCalls, store, listeners, subCalls, unsubCalls, unsubscribe, callbacks,
                  sync, disposed, ops >>

\* microtask: the flush queued by fanIn, the reaction not being the interval
\* task's callback
RunFlush(o) ==
  RunFlushStep(o) /\ UNCHANGED intervalVars

\* microtask: dispatchEvent resumes after `await cb(event)`
RunContinuation ==
  /\ noop' = NoCall
  /\ ~sync
  /\ mq # <<>>
  /\ Head(mq).kind = "cont"
  /\ LET t == Head(mq)
     IN SetHeap(DispatchFrom([Heap EXCEPT !.mq = Tail(mq)],
                             callbacks[t.who], t.who, t.event, t.idx))
  /\ UNCHANGED << intervalVars, managerVars, registryCalls, store, listeners, subCalls, unsubCalls, unsubscribe, callbacks,
                  sync, disposed, ops >>

\* microtask: user code runs
RunUserTask ==
  /\ noop' = NoCall
  /\ ~sync
  /\ mq # <<>>
  /\ Head(mq).kind = "user"
  /\ mq' = Tail(mq)
  /\ sync' = TRUE
  /\ burst' = Impure
  /\ reacted' = {}
  /\ NoFailure
  /\ UNCHANGED dispatches
  /\ UNCHANGED << intervalVars, managerVars, registryCalls, store, listeners, subCalls, unsubCalls, unsubscribe,
                  previousValue, callbacks, queued, lastValues, flushScheduled, unsettled,
                  lastEvent, delivered, ingested, disposed, ops >>

Next ==
  \/ \E w \in WatcherIds, v \in Vals : SetAtom(w, v)
  \/ \E w \in WatcherIds : StartWatching(w)
  \/ \E w \in WatcherIds : StopWatching(w)
  \/ \E g \in AggIds : Dispose(g, "resolve")
  \/ QueueUserTask
  \/ EndSync
  \/ BeginTask
  \/ RunFlush("resolve")
  \/ RunContinuation
  \/ RunUserTask

\* the watchers wired to the aggregators by registerCallbacks, with reactions
\* that succeed
Spec == Init /\ [][Next]_vars

\* ------------------------------------------------- the aggregator on its own
\* createFanInAggregator used directly: user code calls fanIn with events of its
\* own making and dispose, the watchers only answer getCurrentValue (store.set
\* has no subscriber to notify), and the reaction may fail.

\* the aggregators user code drives directly
DirectAggIds == {"g2"}

\* the events user code passes to fanIn of g; the aggregator reads only id and
\* current of an event, so one previous and one isInitial are drawn
FanInEvents(g) == {MakeEvent(k, v, Undefined, FALSE) : k \in Declared(g), v \in Vals}

\* fanIn(event) of aggregator g, called by user code
CallFanIn(g, event) ==
  /\ noop' = NoCall
  /\ sync
  /\ ops < MaxOps
  /\ ops' = ops + 1
  /\ SetHeap(FanIn([Heap EXCEPT !.burst = Impure], g, event))
  /\ UNCHANGED << intervalVars, managerVars, registryCalls, store, listeners, subCalls, unsubCalls, unsubscribe, callbacks,
                  sync, disposed >>

\* microtask: the handler flush gave to .catch logs the rejection
RunCatch ==
  /\ noop' = NoCall
  /\ ~sync
  /\ mq # <<>>
  /\ Head(mq).kind = "catch"
  /\ mq' = Tail(mq)
  /\ logged' = {Head(mq).who}
  /\ thrown' = NoThrow
  /\ reacted' = {}
  /\ UNCHANGED dispatches
  /\ UNCHANGED << intervalVars, managerVars, registryCalls, store, listeners, subCalls, unsubCalls, unsubscribe,
                  previousValue, callbacks, queued, lastValues, flushScheduled, unsettled,
                  sync, lastEvent, delivered, ingested, disposed, ops, burst >>

NextAggregator ==
  \/ \E g \in DirectAggIds : \E event \in FanInEvents(g) : CallFanIn(g, event)
  \/ \E g \in DirectAggIds, o \in Outcomes : Dispose(g, o)
  \/ \E w \in WatcherIds, v \in Vals : SetAtom(w, v)
  \/ EndSync
  \/ BeginTask
  \/ \E o \in Outcomes : RunFlush(o)
  \/ RunCatch

SpecAggregator == Init /\ [][NextAggregator]_vars

\* ------------------------------------- a reaction that emits while it executes
\* The aggregator on its own, with a reaction that may call fanIn of its own
\* aggregator before it returns (as a reaction does that mutates a source whose
\* first listener is this aggregator's fanIn).

\* microtask: the flush queued by fanIn, whose reaction calls fanIn(event)
RunFlushReentrant(event) ==
  /\ noop' = NoCall
  /\ ~sync
  /\ mq # <<>>
  /\ Head(mq).kind = "flush"
  /\ event \in FanInEvents(Head(mq).who)
  /\ ops < MaxOps
  /\ ops' = ops + 1
  /\ SetHeap(Flush([Heap EXCEPT !.mq = Tail(mq), !.reentry = event],
                   Head(mq).who, store))
  /\ UNCHANGED << intervalVars, managerVars, registryCalls, store, listeners, subCalls,
                  unsubCalls, unsubscribe, callbacks, sync, disposed >>

NextReentrant ==
  \/ \E g \in DirectAggIds : \E event \in FanInEvents(g) : CallFanIn(g, event)
  \/ \E g \in DirectAggIds : \E event \in FanInEvents(g) : RunFlushReentrant(event)
  \/ EndSync
  \/ BeginTask
  \/ RunFlush("resolve")

SpecReentrant == Init /\ [][NextReentrant]_vars

\* ----------------------------------- a reaction that takes time to settle
\* The aggregator on its own, with a reaction that may return a promise that is
\* settled later by other code.

\* the promise an earlier reaction call of g returned is fulfilled
SettleReaction(g) ==
  /\ noop' = NoCall
  /\ unsettled[g] > 0
  /\ unsettled' = [unsettled EXCEPT ![g] = @ - 1]
  /\ reacted' = {}
  /\ NoFailure
  /\ UNCHANGED << intervalVars, managerVars, registryCalls, store, listeners, subCalls,
                  unsubCalls, unsubscribe, previousValue, callbacks, queued, lastValues,
                  flushScheduled, mq, sync, lastEvent, delivered, ingested, disposed,
                  ops, burst, dispatches >>

NextPendingReaction ==
  \/ \E g \in DirectAggIds : \E event \in FanInEvents(g) : CallFanIn(g, event)
  \/ \E g \in DirectAggIds : SettleReaction(g)
  \/ EndSync
  \/ BeginTask
  \/ \E o \in {"resolve", "pend"} : RunFlush(o)

SpecPendingReaction == Init /\ [][NextPendingReaction]_vars

\* ------------------------------------------------ a source whose read fails
\* The watchers and aggregators of Spec over a store whose `get` may throw when
\* startWatching reads the initial value.

\* watcher.startWatching() when store.get(atom) throws: store.sub has been
\* called and its result assigned to `unsubscribe`, previousValue is still
\* undefined, and the exception leaves startWatching before any event is made
StartWatchingFails(w) ==
  /\ sync
  /\ ~AlreadyWatching(unsubscribe[w])
  /\ ops < MaxOps
  /\ ops' = ops + 1
  /\ noop' = NoCall
  /\ LET h == subCalls[w] + 1
     IN /\ subCalls' = [subCalls EXCEPT ![w] = h]
        /\ listeners' = [listeners EXCEPT ![w] = Append(@, h)]
        /\ unsubscribe' = [unsubscribe EXCEPT ![w] = h]
        /\ SetHeap([Heap EXCEPT !.previousValue[w] = MapSet(@, h, Undefined),
                                !.thrown = w,
                                !.burst = Impure])
  /\ UNCHANGED << intervalVars, managerVars, registryCalls, store, unsubCalls,
                  callbacks, sync, disposed >>

NextSourceFailure ==
  \/ \E w \in WatcherIds : StartWatching(w)
  \/ \E w \in WatcherIds : StartWatchingFails(w)
  \/ \E w \in WatcherIds : StopWatching(w)
  \/ \E w \in WatcherIds, v \in Vals : SetAtom(w, v)
  \/ EndSync
  \/ BeginTask
  \/ RunFlush("resolve")
  \/ RunContinuation

SpecSourceFailure == Init /\ [][NextSourceFailure]_vars

\* ------------------------------------------------ dispatchEvent in general
\* A watcher whose callbacks are arbitrary functions.  A function is named by
\* what it does when called: it returns undefined, throws, returns a promise
\* that is already rejected (an async function that throws), or returns a
\* promise that is settled later by other code.
ListenerFns == {"returns", "throws", "rejects", "pends"}
ListenerIds == << "l1", "l2", "l3" >>
DispatchWatcherIds == {"a"}

\* the functions registered under ListenerIds, in every order
ListenerOrders ==
  {fns \in [1..Len(ListenerIds) -> ListenerFns] :
     \A i, j \in 1..Len(ListenerIds) : i # j => fns[i] # fns[j]}

\* addCallback(fns[i], ListenerIds[i]) for each i in turn
RECURSIVE RegisterListeners(_, _, _)
RegisterListeners(cbs, fns, i) ==
  IF i > Len(ListenerIds) THEN cbs
  ELSE RegisterListeners(AddCallback(cbs, fns[i], ListenerIds[i]), fns, i + 1)

\* the events dispatchEvent is called with; it passes them on unread
DispatchedEvents(w) == {MakeEvent(w, v, Undefined, FALSE) : v \in Vals}

\* the reaction job that resumes dispatch n of watcher w at its await
ResumeTask(w, n) == [kind |-> "resume", who |-> w, event |-> NoEvent, idx |-> n]

\* a dispatchEvent call: calls are the ids whose callback it has invoked, fns
\* the functions invoked, settled how many of those calls have returned, thrown or had their promise settled,
\* idx the iterator position of the call it awaits, rejected whether the awaited
\* promise was rejected, aborted whether an error left the loop
NewDispatch(w, event) ==
  [who |-> w, event |-> event, idx |-> 0, calls |-> <<>>, fns |-> <<>>, settled |-> 0,
   awaiting |-> "", rejected |-> FALSE, done |-> FALSE, aborted |-> FALSE]

\* variant: the try block lets a synchronous throw through
Caught_OnlyRejections(how) == how = "reject"

\* try { await cb(event) } catch (err): both a throw of cb and a rejection of
\* the awaited promise land in the catch block
Caught(how) == TRUE

\* the catch block, or the error leaving the loop where nothing catches it
CatchOrAbort(S, n, id, how) ==
  IF Caught(how)
  THEN [S EXCEPT !.logged = @ \cup {id}]
  ELSE [S EXCEPT !.dispatches[n].aborted = TRUE,
                 !.dispatches[n].done = TRUE,
                 !.thrown = S.dispatches[n].who]

\* the for loop of dispatchEvent, dispatch n, from iterator position idx until
\* it suspends at an await or ends
RECURSIVE DispatchLoop(_, _, _, _)
DispatchLoop(S, cbs, n, idx) ==
  LET i == NextEntry(cbs, idx) IN
  IF S.dispatches[n].aborted THEN S
  ELSE IF i > Len(cbs) THEN [S EXCEPT !.dispatches[n].done = TRUE,
                                      !.dispatches[n].idx = i,
                                      !.dispatches[n].awaiting = ""]
  ELSE
    LET cb == cbs[i].fn
        S1 == [S EXCEPT !.dispatches[n].calls = Append(@, cbs[i].id),
                        !.dispatches[n].fns = Append(@, cb),
                        !.dispatches[n].idx = i,
                        !.dispatches[n].awaiting = ""]
        w == S.dispatches[n].who
    IN CASE cb = "throws" ->
              DispatchLoop(CatchOrAbort([S1 EXCEPT !.dispatches[n].settled = @ + 1],
                                        n, cbs[i].id, "throw"),
                           cbs, n, i + 1)
         [] cb = "returns" ->
              [S1 EXCEPT !.dispatches[n].settled = @ + 1,
                         !.dispatches[n].awaiting = "tick",
                         !.mq = Append(@, ResumeTask(w, n))]
         [] cb = "rejects" ->
              [S1 EXCEPT !.dispatches[n].settled = @ + 1,
                         !.dispatches[n].awaiting = "tick",
                         !.dispatches[n].rejected = TRUE,
                         !.mq = Append(@, ResumeTask(w, n))]
         [] cb = "pends" ->
              [S1 EXCEPT !.dispatches[n].awaiting = "promise"]

\* dispatchEvent resumes after its await: a rejection is thrown into the catch
\* block, then the loop goes on
ResumeDispatch(S, cbs, n) ==
  LET d == S.dispatches[n]
      S1 == IF d.rejected
            THEN CatchOrAbort([S EXCEPT !.dispatches[n].rejected = FALSE],
                              n, d.calls[Len(d.calls)], "reject")
            ELSE S
  IN DispatchLoop(S1, cbs, n, d.idx + 1)

\* dispatchEvent(event) of watcher w, called by startWatching or by the store.sub
\* listener
EmitStep(w, event) ==
  /\ noop' = NoCall
  /\ sync
  /\ ops < MaxOps
  /\ ops' = ops + 1
  /\ LET n == Len(dispatches) + 1
         S1 == [Heap EXCEPT !.dispatches = Append(@, NewDispatch(w, event)),
                            !.lastEvent[w] = event,
                            !.burst = Impure]
     IN SetHeap(DispatchLoop(S1, callbacks[w], n, 1))
  /\ UNCHANGED << intervalVars, managerVars, store, listeners, subCalls, unsubCalls,
                  unsubscribe, callbacks, sync, disposed >>

\* dispatchEvent(event) of a watcher whose callbacks stay as they are
Emit(w, event) == EmitStep(w, event) /\ UNCHANGED registryCalls

\* other code settles the promise dispatch n awaits
Settle(n, how) ==
  /\ noop' = NoCall
  /\ sync
  /\ ops < MaxOps
  /\ ops' = ops + 1
  /\ n \in 1..Len(dispatches)
  /\ dispatches[n].awaiting = "promise"
  /\ SetHeap([Heap EXCEPT !.dispatches[n].settled = @ + 1,
                          !.dispatches[n].awaiting = "tick",
                          !.dispatches[n].rejected = (how = "reject"),
                          !.mq = Append(@, ResumeTask(dispatches[n].who, n)),
                          !.burst = Impure])
  /\ UNCHANGED << intervalVars, managerVars, registryCalls, store, listeners, subCalls, unsubCalls, unsubscribe, callbacks,
                  sync, disposed >>

\* microtask: a dispatch resumes
RunResume ==
  /\ noop' = NoCall
  /\ ~sync
  /\ mq # <<>>
  /\ Head(mq).kind = "resume"
  /\ LET t == Head(mq)
     IN SetHeap(ResumeDispatch([Heap EXCEPT !.mq = Tail(mq)], callbacks[t.who], t.idx))
  /\ UNCHANGED << intervalVars, managerVars, registryCalls, store, listeners, subCalls, unsubCalls, unsubscribe, callbacks,
                  sync, disposed, ops >>

InitDispatch ==
  /\ \E fns \in ListenerOrders :
       InitWith([w \in WatcherIds |->
                   IF w \in DispatchWatcherIds THEN RegisterListeners(<<>>, fns, 1)
                   ELSE <<>>])
  /\ runOnSetup = "undefined"
  /\ watchers = << "a", "b" >>

NextDispatch ==
  \/ \E w \in DispatchWatcherIds : \E event \in DispatchedEvents(w) : Emit(w, event)
  \/ \E n \in 1..MaxOps, how \in {"resolve", "reject"} : Settle(n, how)
  \/ EndSync
  \/ BeginTask
  \/ RunResume

SpecDispatch == InitDispatch /\ [][NextDispatch]_vars

\* ------------------------------------------------ the listener registry
\* One watcher whose addCallback, removeCallback and removeAllCallbacks are
\* called in any order, also while a dispatchEvent call is suspended at its
\* await.
RegistryFns == {"returns", "throws"}
RegistryIds == {"l1", "l2"}
RegistryWatcherIds == {"a"}

\* a call made to the watcher and what it returned
RegistryCall(op, id, fn, result) == [op |-> op, id |-> id, fn |-> fn, result |-> result]

\* what a registry call leaves alone
RegistryUnchanged ==
  /\ noop' = NoCall
  /\ reacted' = {}
  /\ NoFailure
  /\ burst' = Impure
  /\ UNCHANGED << intervalVars, managerVars, store, listeners, subCalls, unsubCalls,
                  unsubscribe, previousValue, queued, lastValues, flushScheduled, unsettled,
                  mq, sync, lastEvent, delivered, ingested, disposed, dispatches >>

\* watcher.addCallback(fn, id)
AddListener(w, fn, id) ==
  /\ sync
  /\ ops < MaxOps
  /\ ops' = ops + 1
  /\ callbacks' = [callbacks EXCEPT ![w] = AddCallback(@, fn, id)]
  /\ registryCalls' = Append(registryCalls, RegistryCall("addCallback", id, fn, FALSE))
  /\ RegistryUnchanged

\* watcher.removeCallback(id)
RemoveListener(w, id) ==
  /\ sync
  /\ ops < MaxOps
  /\ ops' = ops + 1
  /\ callbacks' = [callbacks EXCEPT ![w] = RemoveCallback(@, id)]
  /\ registryCalls' = Append(registryCalls,
                             RegistryCall("removeCallback", id, "",
                                          RemoveCallbackResult(callbacks[w], id)))
  /\ RegistryUnchanged

\* watcher.removeAllCallbacks()
RemoveAllListeners(w) ==
  /\ sync
  /\ ops < MaxOps
  /\ ops' = ops + 1
  /\ callbacks' = [callbacks EXCEPT ![w] = RemoveAllCallbacks(@)]
  /\ registryCalls' = Append(registryCalls, RegistryCall("removeAllCallbacks", "", "", FALSE))
  /\ RegistryUnchanged

\* dispatchEvent(event), the call noted among the registry calls
EmitToRegistry(w) ==
  /\ EmitStep(w, MakeEvent(w, store[w], Undefined, FALSE))
  /\ registryCalls' = Append(registryCalls, RegistryCall("dispatchEvent", w, "", FALSE))

InitRegistry ==
  /\ InitWith([w \in WatcherIds |-> <<>>])
  /\ runOnSetup = "undefined"
  /\ watchers = << "a", "b" >>

NextRegistry ==
  \/ \E w \in RegistryWatcherIds, fn \in RegistryFns, id \in RegistryIds : AddListener(w, fn, id)
  \/ \E w \in RegistryWatcherIds, id \in RegistryIds : RemoveListener(w, id)
  \/ \E w \in RegistryWatcherIds : RemoveAllListeners(w)
  \/ \E w \in RegistryWatcherIds : EmitToRegistry(w)
  \/ EndSync
  \/ BeginTask
  \/ RunResume

SpecRegistry == InitRegistry /\ [][NextRegistry]_vars

\* ============================================== createIntervalCallback
\* One interval task, `createIntervalCallback(options)`: its callback is
\* called, its condition and action promises settle, its timers tick and its
\* cleanup is called, in any order.  A run of the callback is a process that
\* stops at each `await`; a tick is one elapsed period of an armed timer.

\* the values of options.runOnSetup
RunOnSetupValues == {"undefined", "true", "false"}

RunsOnSetup_OnlyTrue(option) == option = "true"

\* `options.runOnSetup !== false`
RunsOnSetup(option) == option # "false"

\* what a call of options.condition or options.action does at once: it returns
\* a promise that settles later, or it throws
Calls == {"pending", "throw"}

\* every variable the interval task leaves alone
registryVars == << store, listeners, subCalls, unsubCalls, unsubscribe,
                   previousValue, callbacks, queued, lastValues, flushScheduled, unsettled,
                   mq, sync, lastEvent, delivered, reacted, ingested, disposed,
                   noop, burst, dispatches, managerVars, registryCalls >>

Acquire_NoWait(m, i) == [m EXCEPT !.holder = i]

\* `mutex.acquire()` by run i: the lock is taken if it is free, else the run
\* waits its turn
Acquire(m, i) ==
  IF m.holder = 0 THEN [m EXCEPT !.holder = i]
  ELSE [m EXCEPT !.waiting = Append(@, i)]

\* variant: the lock stays with its holder
Release_Held(m) == m

\* `release()`: the lock passes to the first waiting run, if any
Release(m) ==
  IF m.waiting = <<>> THEN [m EXCEPT !.holder = 0]
  ELSE [holder |-> Head(m.waiting), waiting |-> Tail(m.waiting)]

ClearInterval_Ignored(ts, h) == ts

\* `clearInterval(interval)`
ClearInterval(ts, h) == [ts EXCEPT ![h].armed = FALSE]

ClearExisting_Skipped(ts, h) == ts

\* `if (interval) { clearInterval(interval); interval = null; }`
ClearExisting(ts, h) == IF h # Null THEN ClearInterval(ts, h) ELSE ts

ActionCaught_OnlyRejections(how) == how = "reject"

\* the try/catch around `await options.action()` catches a throw and a
\* rejection alike
ActionCaught(how) == TRUE

\* the state a step of the interval task works on
IntervalState ==
  [interval |-> interval, timers |-> timers, mutex |-> mutex,
   invocations |-> invocations, ticking |-> ticking,
   logged |-> {}, thrown |-> NoThrow, acted |-> 0, failure |-> "",
   cleanedAt |-> cleanedAt]

SetTask(T) ==
  /\ interval' = T.interval
  /\ timers' = T.timers
  /\ mutex' = T.mutex
  /\ invocations' = T.invocations
  /\ ticking' = T.ticking
  /\ acted' = T.acted
  /\ failure' = T.failure
  /\ cleanedAt' = T.cleanedAt

SetIntervalState(T) ==
  /\ SetTask(T)
  /\ logged' = T.logged
  /\ thrown' = T.thrown

\* `finally { release(); }` and the end of run i
Finish(T, i, outcome) ==
  [T EXCEPT !.mutex = Release(@),
            !.invocations[i].pc = "done",
            !.invocations[i].outcome = outcome]

\* `interval = setInterval(..., options.intervalMs)`
ArmTimer(T) ==
  [T EXCEPT !.timers = Append(@, [armed |-> TRUE, ticks |-> 0]),
            !.interval = Len(T.timers) + 1]

\* run i after its immediate `await options.action()` ended as `how`
AfterAction(T, i, how) ==
  LET T1 == [T EXCEPT !.failure = "immediate"]
  IN IF how = "resolve" THEN Finish(ArmTimer(T), i, "armed")
     ELSE IF ActionCaught(how)
          THEN Finish(ArmTimer([T1 EXCEPT !.logged = {"interval"},
                                          !.invocations[i].caught = TRUE]),
                      i, "armed")
          ELSE Finish(T1, i, "failed")

\* a tick's `await options.action()` ended as `how`
AfterTick(T, how) ==
  LET T1 == [T EXCEPT !.failure = "tick"]
  IN IF how = "resolve" THEN T
     ELSE IF ActionCaught(how) THEN [T1 EXCEPT !.logged = {"interval"}]
          ELSE [T1 EXCEPT !.thrown = "tick"]

\* `callback(events)` up to its first await: a new run asks for the lock
InvokeCallback(T) ==
  [T EXCEPT !.invocations =
              Append(@, [pc |-> "acquire", ran |-> 0, caught |-> FALSE,
                         outcome |-> ""]),
            !.mutex = Acquire(@, Len(T.invocations) + 1)]

\* the body of `cleanup`
CleanupTask(T) ==
  LET T1 == [T EXCEPT !.cleanedAt = Len(T.invocations)]
  IN IF T1.interval # Null
     THEN [T1 EXCEPT !.timers = ClearInterval(@, T1.interval),
                     !.interval = Null]
     ELSE T1

\* `callback(events)` is called
CallCallback ==
  /\ ops < MaxOps
  /\ ops' = ops + 1
  /\ SetIntervalState(InvokeCallback(IntervalState))
  /\ UNCHANGED << runOnSetup, registryVars >>

\* run i holds the lock and calls `options.condition(events)`
Enter(i, call) ==
  /\ i \in DOMAIN invocations
  /\ invocations[i].pc = "acquire"
  /\ mutex.holder = i
  /\ LET T == IntervalState
     IN SetIntervalState(
          IF call = "throw" THEN Finish(T, i, "rejected")
          ELSE [T EXCEPT !.invocations[i].pc = "condition"])
  /\ UNCHANGED << ops, runOnSetup, registryVars >>

\* run i resumes with the value of the condition
ConditionSettles(i, result, call) ==
  /\ i \in DOMAIN invocations
  /\ invocations[i].pc = "condition"
  /\ (result = "true" /\ RunsOnSetup(runOnSetup)) \/ call = "pending"
  /\ LET T == IntervalState
         T1 == [T EXCEPT !.timers = ClearExisting(@, T.interval),
                         !.interval = Null]
         T2 == [T1 EXCEPT !.acted = 1, !.invocations[i].ran = 1]
     IN SetIntervalState(
          CASE result = "reject" -> Finish(T, i, "rejected")
            [] result = "false" ->
                 IF T.interval # Null
                 THEN Finish([T EXCEPT !.timers = ClearInterval(@, T.interval),
                                       !.interval = Null], i, "cleared")
                 ELSE Finish(T, i, "idle")
            [] result = "true" ->
                 IF RunsOnSetup(runOnSetup)
                 THEN IF call = "throw" THEN AfterAction(T2, i, "throw")
                      ELSE [T2 EXCEPT !.invocations[i].pc = "action"]
                 ELSE Finish(ArmTimer(T1), i, "armed"))
  /\ UNCHANGED << ops, runOnSetup, registryVars >>

\* the promise of run i's immediate action settles
ActionSettles(i, how) ==
  /\ i \in DOMAIN invocations
  /\ invocations[i].pc = "action"
  /\ SetIntervalState(AfterAction(IntervalState, i, how))
  /\ UNCHANGED << ops, runOnSetup, registryVars >>

\* variant: the timer's callback runs the action under the lock, one at a time
TickStarts_WhenFree(m, inFlight) == m.holder = 0 /\ inFlight = 0

\* the function given to setInterval calls options.action() at once: it neither
\* takes the lock nor looks at the actions in flight
TickStarts(m, inFlight) == TRUE

\* one period of timer h elapses: its callback calls the action
Tick(h, call) ==
  /\ ops < MaxOps
  /\ ops' = ops + 1
  /\ h \in DOMAIN timers
  /\ timers[h].armed
  /\ TickStarts(mutex, ticking)
  /\ LET T == [IntervalState EXCEPT !.timers[h].ticks = @ + 1, !.acted = 1]
     IN SetIntervalState(
          IF call = "throw" THEN AfterTick(T, "throw")
          ELSE [T EXCEPT !.ticking = @ + 1])
  /\ UNCHANGED << runOnSetup, registryVars >>

\* the promise of a tick's action settles
TickSettles(how) ==
  /\ ticking > 0
  /\ SetIntervalState(
       AfterTick([IntervalState EXCEPT !.ticking = @ - 1], how))
  /\ UNCHANGED << ops, runOnSetup, registryVars >>

\* `cleanup()`
Cleanup ==
  /\ ops < MaxOps
  /\ ops' = ops + 1
  /\ SetIntervalState(CleanupTask(IntervalState))
  /\ UNCHANGED << runOnSetup, registryVars >>

InitInterval ==
  /\ InitWith(RegisterCallbacks([w \in WatcherIds |-> <<>>], 1))
  /\ runOnSetup \in RunOnSetupValues
  /\ watchers = << "a", "b" >>

NextInterval ==
  \/ CallCallback
  \/ \E i \in 1..MaxOps, call \in Calls : Enter(i, call)
  \/ \E i \in 1..MaxOps, result \in {"true", "false", "reject"}, call \in Calls :
       ConditionSettles(i, result, call)
  \/ \E i \in 1..MaxOps, how \in {"resolve", "reject"} : ActionSettles(i, how)
  \/ \E h \in 1..MaxOps, call \in Calls : Tick(h, call)
  \/ \E how \in {"resolve", "reject"} : TickSettles(how)
  \/ Cleanup

SpecInterval == InitInterval /\ [][NextInterval]_vars

\* ================================================= createWatcherManager
\* The manager over the watchers and callbackConfigs: user code calls startAll,
\* stopAll and store.set; reactions succeed.

\* the orders in which the `watchers` object can list its keys
WatcherOrders == { << "a", "b" >>, << "b", "a" >> }

\* a flush queued by the fanIn of an aggregator that registerCallbacks has since
\* replaced by a new one
RetiredFlushTask(g) == [kind |-> "retired", who |-> g, event |-> NoEvent, idx |-> 0]

CleanupOrder_TeardownFirst == << "removeCallback", "teardown", "dispose" >>

\* what registerCallbacks' cleanup does for one config, in order
CleanupOrder == << "removeCallback", "dispose", "teardown" >>

\* cfg.watchers.forEach: removeCallback(makeId(name, key)); R is the state the
\* cleanup works on: the threaded state S, the watchers' callbacks and the log
RECURSIVE RemoveWatchers(_, _, _, _)
RemoveWatchers(R, callbackName, keys, i) ==
  IF i > Len(keys) THEN R
  ELSE LET id == MakeId(callbackName, keys[i])
       IN RemoveWatchers(
            [R EXCEPT !.callbacks[keys[i]] = RemoveCallback(@, id),
                      !.log = Append(@, [op |-> "removeCallback", who |-> id])],
            callbackName, keys, i + 1)

\* one step of the cleanup for config cfg
CleanupStep(R, cfg, st, step) ==
  CASE step = "removeCallback" -> RemoveWatchers(R, cfg.name, cfg.watchers, 1)
    [] step = "dispose" ->
         LET S1 == DisposeAggregator(R.S, cfg.name, st)
         IN [R EXCEPT !.S = S1,
                      !.log = @ \o << [op |-> "dispose", who |-> cfg.name] >>
                                \o (IF cfg.name \in S1.reacted
                                    THEN << [op |-> "callback", who |-> cfg.name] >>
                                    ELSE << >>)]
    [] step = "teardown" ->
         [R EXCEPT !.log = Append(@, [op |-> "teardown", who |-> cfg.name]),
                   !.lifecycle[cfg.name] = Append(@, "teardown")]

\* the body of the forEach of the cleanup, for config cfg
CleanupConfig(R, cfg, st) ==
  CleanupStep(CleanupStep(CleanupStep(R, cfg, st, CleanupOrder[1]),
                          cfg, st, CleanupOrder[2]),
              cfg, st, CleanupOrder[3])

\* the cleanup function registerCallbacks returned, from config i on
RECURSIVE CleanupAll(_, _, _)
CleanupAll(R, st, i) ==
  IF i > Len(CallbackConfigs) THEN R
  ELSE CleanupAll(CleanupConfig(R, CallbackConfigs[i], st), st, i + 1)

\* createFanInAggregator for every config: new queued, lastValues and
\* flushScheduled; the flushes still queued belong to the aggregators replaced
NewAggregators(S) ==
  [S EXCEPT !.queued = [g \in AggIds |-> EmptyMap],
            !.lastValues = [g \in AggIds |-> EmptyMap],
            !.flushScheduled = [g \in AggIds |-> FALSE],
            !.ingested = [g \in AggIds |-> EmptyMap],
            !.mq = [i \in 1..Len(S.mq) |->
                      IF S.mq[i].kind = "flush" THEN RetiredFlushTask(S.mq[i].who)
                      ELSE S.mq[i]]]

\* startWatching of watcher w; W is the threaded state S with the subscriptions
StartWatcher(W, cbs, st, w) ==
  IF AlreadyWatching(W.unsubscribe[w]) THEN W
  ELSE LET h == W.subCalls[w] + 1
           initialValue == st[w]
           initialEvent == MakeEvent(w, initialValue, initialValue, TRUE)
           S1 == [W.S EXCEPT !.previousValue[w] = MapSet(@, h, initialValue),
                             !.lastEvent[w] = initialEvent]
       IN [W EXCEPT !.subCalls[w] = h,
                    !.listeners[w] = Append(@, h),
                    !.unsubscribe[w] = h,
                    !.S = DispatchEvent(S1, cbs[w], w, initialEvent)]

\* stopWatching of watcher w
StopWatcher(W, w) ==
  IF W.unsubscribe[w] = Null THEN W
  ELSE LET h == W.unsubscribe[w]
       IN [W EXCEPT !.listeners[w] = Unsubscribe(@, h),
                    !.unsubCalls[w] =
                       MapSet(@, h, IF MapHas(@, h) THEN @[h] + 1 ELSE 1),
                    !.S.previousValue[w] =
                       [x \in Range(Unsubscribe(W.listeners[w], h)) |-> @[x]],
                    !.unsubscribe[w] = Null]

\* Object.values(watchers).forEach((w) => w.startWatching())
RECURSIVE StartWatchers(_, _, _, _, _)
StartWatchers(W, cbs, st, keys, i) ==
  IF i > Len(keys) THEN W
  ELSE StartWatchers(StartWatcher(W, cbs, st, keys[i]), cbs, st, keys, i + 1)

\* Object.values(watchers).forEach((w) => w.stopWatching())
RECURSIVE StopWatchers(_, _, _)
StopWatchers(W, keys, i) ==
  IF i > Len(keys) THEN W
  ELSE StopWatchers(StopWatcher(W, keys[i]), keys, i + 1)

\* the state a call of the manager works on
Watching(S) ==
  [S |-> S, listeners |-> listeners, subCalls |-> subCalls,
   unsubCalls |-> unsubCalls, unsubscribe |-> unsubscribe]

SetWatching(W) ==
  /\ SetHeap(W.S)
  /\ listeners' = W.listeners
  /\ subCalls' = W.subCalls
  /\ unsubCalls' = W.unsubCalls
  /\ unsubscribe' = W.unsubscribe

\* `cfg.setup?.()` of every config, in registerCallbacks
SetupAll(lc) == [g \in AggIds |-> Append(lc[g], "setup")]

\* variant: the cleanup is called whether or not one is held
Deregister_Always(R, st) == CleanupAll(R, st, 1)

\* `if (deregister) { deregister(); deregister = null; }`
Deregister(R, st) == IF deregister # Null THEN CleanupAll(R, st, 1) ELSE R

\* manager.startAll()
StartAllStep ==
  /\ noop' = NoCall
  /\ sync
  /\ ops < MaxOps
  /\ ops' = ops + 1
  /\ LET R0 == [S |-> [Heap EXCEPT !.burst = Impure], callbacks |-> callbacks,
                log |-> << >>, lifecycle |-> lifecycle]
         R1 == Deregister(R0, store)
         cbs == RegisterCallbacks(R1.callbacks, 1)
         W == StartWatchers(Watching(NewAggregators(R1.S)), cbs, store, watchers, 1)
     IN /\ callbacks' = cbs
        /\ SetWatching(W)
        /\ cleanupLog' = IF deregister # Null THEN R1.log ELSE cleanupLog
        /\ lifecycle' = SetupAll(R1.lifecycle)
  /\ deregister' = 1
  /\ disposed' = [g \in AggIds |-> FALSE]
  /\ UNCHANGED << store, sync, watchers, registryCalls >>

\* manager.startAll() with reactions that are not the interval task's callback
StartAll ==
  StartAllStep /\ UNCHANGED intervalVars

\* manager.stopAll()
StopAllStep ==
  /\ noop' = NoCall
  /\ sync
  /\ ops < MaxOps
  /\ ops' = ops + 1
  /\ LET R0 == [S |-> [Heap EXCEPT !.burst = Impure], callbacks |-> callbacks,
                log |-> << >>, lifecycle |-> lifecycle]
         R1 == Deregister(R0, store)
         W == StopWatchers(Watching(R1.S), watchers, 1)
     IN /\ callbacks' = R1.callbacks
        /\ SetWatching(W)
        /\ cleanupLog' = IF deregister # Null THEN R1.log ELSE cleanupLog
        /\ lifecycle' = R1.lifecycle
  /\ deregister' = Null
  /\ disposed' = [g \in AggIds |-> disposed[g] \/ deregister # Null]
  /\ UNCHANGED << store, sync, watchers, registryCalls >>

\* manager.stopAll() with teardowns that are not the interval task's cleanup
StopAll ==
  StopAllStep /\ UNCHANGED intervalVars

\* microtask: the flush queued by the fanIn of a replaced aggregator, which
\* dispose left with nothing queued and no last values
RunRetiredFlushStep ==
  /\ noop' = NoCall
  /\ ~sync
  /\ mq # <<>>
  /\ Head(mq).kind = "retired"
  /\ LET g == Head(mq).who
         S == [Heap EXCEPT !.mq = Tail(mq)]
         S1 == Flush([S EXCEPT !.queued[g] = EmptyMap,
                               !.lastValues[g] = EmptyMap,
                               !.flushScheduled[g] = FALSE], g, store)
     IN SetHeap([S1 EXCEPT !.queued = S.queued,
                           !.lastValues = S.lastValues,
                           !.flushScheduled = S.flushScheduled,
                           !.ingested = S.ingested])
  /\ UNCHANGED << managerVars, registryCalls, store, listeners, subCalls, unsubCalls,
                  unsubscribe, callbacks, sync, disposed, ops >>

\* microtask: the flush of a replaced aggregator, the reaction not being the
\* interval task's callback
RunRetiredFlush ==
  RunRetiredFlushStep /\ UNCHANGED intervalVars

\* createWatcherManager(watchers, callbackConfigs, logger): nothing is
\* registered and no watcher is watching
InitManager ==
  /\ InitWith([w \in WatcherIds |-> << >>])
  /\ runOnSetup = "undefined"
  /\ watchers \in WatcherOrders

NextManager ==
  \/ StartAll
  \/ StopAll
  \/ \E w \in WatcherIds, v \in Vals : SetAtom(w, v)
  \/ EndSync
  \/ BeginTask
  \/ RunFlush("resolve")
  \/ RunRetiredFlush
  \/ RunContinuation

SpecManager == InitManager /\ [][NextManager]_vars

\* ================================ the manager with an interval task
\* The manager as above, where the callback and the teardown of one config are
\* the callback and the cleanup of one createIntervalCallback.

\* the config whose callback and teardown are the interval task's
IntervalConfig == "g1"

\* the interval task's part of a step of the watchers: its callback is called
\* if the step called the config's reaction, its cleanup if the step called the
\* config's teardown
TaskReacts(toreDown) ==
  LET T0 == IntervalState
      T1 == IF IntervalConfig \in reacted' THEN InvokeCallback(T0) ELSE T0
      T2 == IF toreDown THEN CleanupTask(T1) ELSE T1
  IN SetTask(T2) /\ UNCHANGED runOnSetup

\* manager.startAll()
StartAllTask == StartAllStep /\ TaskReacts(deregister # Null)

\* manager.stopAll()
StopAllTask == StopAllStep /\ TaskReacts(deregister # Null)

\* microtask: the flush queued by fanIn
RunFlushTask == RunFlushStep("resolve") /\ TaskReacts(FALSE)

\* microtask: the flush of a replaced aggregator
RunRetiredFlushTask == RunRetiredFlushStep /\ TaskReacts(FALSE)

\* a run of the interval callback resumes; the promises it awaits are settled
\* once the microtasks of the watchers have run
ResumeRun ==
  /\ ~sync
  /\ mq = <<>>
  /\ \/ \E i \in 1..MaxOps : Enter(i, "pending")
     \/ \E i \in 1..MaxOps, result \in {"true", "false"} :
          ConditionSettles(i, result, "pending")
     \/ \E i \in 1..MaxOps : ActionSettles(i, "resolve")
     \/ TickSettles("resolve")

\* a timer fires, once the microtask queue is empty
TimerFires ==
  /\ ~sync
  /\ mq = <<>>
  /\ \E h \in 1..MaxOps : Tick(h, "pending")

\* the condition and the action do not fail
InitManagerTask ==
  /\ InitWith([w \in WatcherIds |-> << >>])
  /\ runOnSetup \in {"undefined", "false"}
  /\ watchers = << "a", "b" >>

NextManagerTask ==
  \/ StartAllTask
  \/ StopAllTask
  \/ \E w \in WatcherIds, v \in Vals : SetAtom(w, v)
  \/ EndSync
  \/ BeginTask
  \/ RunFlushTask
  \/ RunRetiredFlushTask
  \/ RunContinuation
  \/ ResumeRun
  \/ TimerFires

SpecManagerTask == InitManagerTask /\ [][NextManagerTask]_vars

\* =================================================================== claims
PendingFlushes(g) == Cardinality({i \in 1..Len(mq) : mq[i] = FlushTask(g)})
TurnOpen(g) == DOMAIN ingested[g] # {}

C2_Pending ==
  \A g \in AggIds :
    /\ TurnOpen(g) => PendingFlushes(g) >= 1
    /\ ~disposed[g] => PendingFlushes(g) = (IF TurnOpen(g) THEN 1 ELSE 0)

\* a reaction is invoked by consuming a pending flush or by dispose, closes the
\* turn, and (dispose not having been called) there was a turn to close
C2_ReactionConsumesFlush ==
  \A g \in reacted' :
    /\ \/ ~sync /\ PendingFlushes(g)' = PendingFlushes(g) - 1
       \/ sync /\ disposed'[g] /\ PendingFlushes(g)' = PendingFlushes(g)
    /\ ~TurnOpen(g)'
    /\ ~disposed'[g] => TurnOpen(g)

\* C2: the fanIn calls made between two flushes of an aggregator queue exactly
\* one flush and are answered by exactly one invocation of the reaction, which
\* closes the turn; a fanIn call after a flush has run opens a new turn with one
\* further flush.
C2_OneFlushPerTurn == []C2_Pending /\ [][C2_ReactionConsumesFlush]_vars

\* a second turn is open, with events of both ids, after a first one was flushed
C2_Witness ==
  /\ ~disposed["g2"]
  /\ DOMAIN delivered["g2"] # {}
  /\ DOMAIN ingested["g2"] = {"a", "b"}
  /\ PendingFlushes("g2") = 1

\* C3: the snapshot's entry for an id that was passed to fanIn during the turn
\* is the last event passed for that id.
C3_LastWriteWins ==
  [][\A g \in reacted' : \A k \in DOMAIN ingested[g] :
       delivered'[g][k] = ingested[g][k]]_vars

\* g1 was handed two different events of "a" in one turn (both dispatches are
\* still suspended after g1's fanIn) and its reaction received the second
C3_Witness ==
  /\ "g1" \in reacted
  /\ \E i, j \in 1..Len(mq) :
       /\ i < j
       /\ mq[i].kind = "cont" /\ mq[i].who = "a" /\ mq[i].idx = 2
       /\ mq[j].kind = "cont" /\ mq[j].who = "a" /\ mq[j].idx = 2
       /\ mq[i].event # mq[j].event
       /\ delivered["g1"]["a"] = mq[j].event

C4_OncePerBurst ==
  (~sync /\ mq = <<>> /\ burst.pure /\ Cardinality(burst.changed) >= 2) =>
    \A g \in AggIds :
      (Declared(g) \cap burst.changed # {}) =>
        /\ burst.reactions[g] = 1
        /\ \A k \in Declared(g) \cap burst.changed : delivered[g][k].isChanged

\* C6: an entry with isChanged = false carries the current that the preceding
\* snapshot of the aggregator carried for the id (a preceding snapshot existing
\* and dispose not having been called).
C6_UnchangedMeansSameValue ==
  [][\A g \in reacted' :
       (~disposed'[g] /\ DOMAIN delivered[g] # {}) =>
         \A k \in Declared(g) :
           ~delivered'[g][k].isChanged =>
             delivered'[g][k].current = delivered[g][k].current]_vars

\* C7: the event startWatching dispatches when it subscribes has isInitial and
\* isChanged true, current the store's value at that moment, previous undefined.
C7_InitialEvent ==
  [][\A w \in WatcherIds :
       (unsubscribe[w] = Null /\ unsubscribe'[w] # Null) =>
         lastEvent'[w] = [id |-> w, current |-> store[w], previous |-> Undefined,
                          isInitial |-> TRUE, isChanged |-> TRUE]]_vars

\* C8: within a watching session, an event produced after the initial one has
\* isInitial false, current the store's new value, and previous the current of
\* the event the watcher produced just before it.
C8_PreviousChain ==
  [][\A w \in WatcherIds :
       (/\ unsubscribe[w] # Null
        /\ unsubscribe'[w] = unsubscribe[w]
        /\ store'[w] # store[w]) =>
         /\ lastEvent'[w].isInitial = FALSE
         /\ lastEvent'[w].isChanged = TRUE
         /\ lastEvent'[w].current = store'[w]
         /\ lastEvent'[w].previous = lastEvent[w].current]_vars

\* the third event of the first session of "a": its previous is the second's current
C8_Witness ==
  /\ subCalls["a"] = 1
  /\ unsubscribe["a"] = 1
  /\ ~lastEvent["a"].isInitial
  /\ lastEvent["a"].previous # 0
  /\ lastEvent["a"].current = store["a"]

\* the live subscriptions of a watcher are the one whose handle it stores, and a
\* handle is called at most once
C9_Subscriptions ==
  \A w \in WatcherIds :
    /\ Len(listeners[w]) <= 1
    /\ listeners[w] = (IF unsubscribe[w] = Null THEN <<>> ELSE <<unsubscribe[w]>>)
    /\ \A h \in DOMAIN unsubCalls[w] : unsubCalls[w][h] <= 1

\* between two states in which the watcher is watching no subscription is made
\* and no initial event produced
C9_NoResubscribe ==
  \A w \in WatcherIds :
    (unsubscribe[w] # Null /\ unsubscribe'[w] # Null) =>
      /\ subCalls'[w] = subCalls[w]
      /\ unsubscribe'[w] = unsubscribe[w]
      /\ lastEvent'[w].isInitial => lastEvent'[w] = lastEvent[w]

\* C9: after any sequence of startWatching and stopWatching calls a watcher
\* holds at most one live subscription; startWatching while watching neither
\* subscribes again nor produces another initial event; each unsubscribe handle
\* is called at most once.
C9_AtMostOneSubscription == []C9_Subscriptions /\ [][C9_NoResubscribe]_vars

\* startWatching has just returned at once on a watcher in its second session,
\* whose first handle was called once
C9_Witness ==
  /\ noop = [op |-> "startWatching", who |-> "a"]
  /\ subCalls["a"] = 2
  /\ unsubscribe["a"] = 2
  /\ unsubCalls["a"][1] = 1

\* the events of the dispatches of watcher w that are suspended at an await
InFlight(w) == {mq[i].event : i \in {j \in 1..Len(mq) : mq[j].kind = "cont" /\ mq[j].who = w}}

\* C10: while a watcher is stopped it produces no event and starts no dispatch:
\* a change of its atom leaves the microtask queue and every turn buffer as they
\* were and invokes nothing; only dispatches begun before the stop go on.
C10_NoDispatchAfterStop ==
  [][\A w \in WatcherIds :
       (unsubscribe[w] = Null /\ unsubscribe'[w] = Null) =>
         /\ lastEvent'[w] = lastEvent[w]
         /\ InFlight(w)' \subseteq InFlight(w)
         /\ (store'[w] # store[w]) =>
              /\ mq' = mq
              /\ queued' = queued
              /\ ingested' = ingested
              /\ reacted' = {}]_vars

\* "a" was watched, then stopped, and its atom has changed since
C10_Witness ==
  /\ subCalls["a"] >= 1
  /\ unsubscribe["a"] = Null
  /\ lastEvent["a"].current # store["a"]


\* what holds of every dispatchEvent call at every moment: it has invoked the
\* registered callbacks in registration order, each once, without gaps; once it
\* has ended it has invoked them all; all but the last call made have settled;
\* no error has left the loop; and until it has ended it is waiting for a
\* promise or has its resumption queued
C11_Calls ==
  /\ thrown = NoThrow
  /\ \A n \in DOMAIN dispatches :
       LET d == dispatches[n]
           cbs == callbacks[d.who]
       IN /\ Len(d.calls) <= Len(cbs)
          /\ \A i \in 1..Len(d.calls) : d.calls[i] = cbs[i].id
          /\ d.done => Len(d.calls) = Len(cbs)
          /\ d.settled >= Len(d.calls) - 1
          /\ d.done => d.settled = Len(d.calls)
          /\ ~d.aborted
          /\ ~d.done => \/ d.awaiting = "promise"
                        \/ \E j \in 1..Len(mq) : mq[j] = ResumeTask(d.who, n)

\* the callbacks a step finds failing are logged by it with their ids: those
\* that throw when it calls them, and the one whose rejected promise a dispatch
\* was awaiting when the step resumed it
C11_Logged ==
  \A n \in DOMAIN dispatches' :
    LET d == dispatches'[n]
        cbs == callbacks[d.who]
        before == IF n \in DOMAIN dispatches THEN Len(dispatches[n].calls) ELSE 0
    IN /\ \A i \in (before + 1)..Len(d.calls) :
            cbs[i].fn = "throws" => d.calls[i] \in logged'
       /\ (/\ n \in DOMAIN dispatches
           /\ dispatches[n].rejected
           /\ ~sync
           /\ mq # <<>>
           /\ Head(mq) = ResumeTask(d.who, n)) =>
            cbs[dispatches[n].idx].id \in logged'

\* C11: for each event a watcher dispatches every registered callback is
\* invoked exactly once, in registration order, each settled before the next
\* starts; a callback that throws or rejects is logged with its id and neither
\* stops the remaining callbacks nor lets an error out of dispatchEvent.
C11_DispatchIsolation == []C11_Calls /\ [][C11_Logged]_vars

\* a dispatch has just ended by logging the rejection of its third callback; the
\* first had thrown and the second had kept it waiting
C11_Witness ==
  /\ dispatches # <<>>
  /\ dispatches[1].done
  /\ dispatches[1].calls = ListenerIds
  /\ callbacks["a"][1].fn = "throws"
  /\ callbacks["a"][2].fn = "pends"
  /\ callbacks["a"][3].fn = "rejects"
  /\ logged = {"l3"}

\* C12: a failure of the reaction, a synchronous throw or a rejected promise, is
\* never rethrown out of flush: no step ends with an exception of a reaction
\* uncaught, neither the microtask running the scheduled flush nor dispose.
C12_ReactionFailureNotRethrown == thrown \notin AggIds

\* C13: a dispose called while a flush is pending invokes the reaction before it
\* returns with every buffered event, and no event passed to fanIn is dropped:
\* an event leaves the turn only by being superseded by a later event of its id
\* or by being delivered in a snapshot.
C13_NoEventLost ==
  [][\A g \in AggIds :
       /\ (sync /\ sync' /\ flushScheduled[g] /\ queued'[g] = EmptyMap) =>
            /\ g \in reacted'
            /\ \A k \in DOMAIN queued[g] : delivered'[g][k] = queued[g][k]
       /\ \A k \in DOMAIN ingested[g] :
            \/ k \in DOMAIN ingested'[g]
            \/ g \in reacted' /\ delivered'[g][k] = ingested[g][k]]_vars

\* dispose has just delivered the buffered events of both ids
C13_Witness ==
  /\ sync
  /\ disposed["g2"]
  /\ "g2" \in reacted
  /\ PendingFlushes("g2") = 1
  /\ \A k \in Declared("g2") : delivered["g2"][k].isChanged

\* a dispose of g that forces a flush: synchronous code clears the scheduled flag
ForcedFlush(g) == sync /\ sync' /\ flushScheduled[g] /\ ~flushScheduled'[g]

\* C14 as stated: after any dispose that has forced a pending flush, exactly
\* one flush is left to execute.
C14_ExactlyOneLeftover ==
  [][\A g \in AggIds : ForcedFlush(g) => PendingFlushes(g)' = 1]_vars

\* C14: a dispose that forces a pending flush leaves queued the flushes that
\* were queued, exactly one unless an earlier dispose left its own behind (so
\* exactly one for the first dispose); a flush that finds the turn buffer empty,
\* no fanIn call having been made since, delivers an all-synthetic snapshot.
C14_LeftoverFlush ==
  [][\A g \in AggIds :
       /\ ForcedFlush(g) =>
            /\ g \in reacted'
            /\ PendingFlushes(g)' = PendingFlushes(g)
            /\ ~disposed[g] => PendingFlushes(g)' = 1
       /\ (~sync /\ g \in reacted' /\ ~TurnOpen(g)) =>
            /\ PendingFlushes(g)' = PendingFlushes(g) - 1
            /\ \A k \in Declared(g) : ~delivered'[g][k].isChanged]_vars

\* the leftover flush has run after a dispose that forced one: nothing is queued
\* any more and the snapshot is all-synthetic
C14_Witness ==
  /\ ~sync
  /\ disposed["g2"]
  /\ "g2" \in reacted
  /\ PendingFlushes("g2") = 0
  /\ ops = 2
  /\ \A k \in Declared("g2") : ~delivered["g2"][k].isChanged

\* C15: a dispose called while no flush is pending invokes no reaction, throws
\* nothing and leaves the turn buffer and the last-known-value cache empty.
C15_DisposeIdempotent ==
  [][\A g \in AggIds :
       (/\ sync /\ sync' /\ ops' = ops + 1 /\ store' = store
        /\ disposed'[g] /\ ~flushScheduled[g] /\ ~flushScheduled'[g]) =>
         /\ reacted' = {}
         /\ thrown' = NoThrow
         /\ mq' = mq
         /\ queued'[g] = EmptyMap
         /\ lastValues'[g] = EmptyMap]_vars

\* a second dispose right after the first, which had forced a flush
C15_Witness ==
  /\ sync
  /\ disposed["g2"]
  /\ reacted = {}
  /\ ops = 3
  /\ \A w \in WatcherIds : store[w] = 0
  /\ DOMAIN delivered["g2"] # {}
  /\ PendingFlushes("g2") = 1
  /\ queued["g2"] = EmptyMap
  /\ lastValues["g2"] = EmptyMap

\* ---- createIntervalCallback

\* run i of the interval callback resolves in this step with its timer armed
\* (its condition held)
ResolvesArmed(i) ==
  /\ invocations[i].pc # "done"
  /\ invocations'[i].pc = "done"
  /\ invocations'[i].outcome = "armed"

\* C16: a run of the interval callback whose condition holds has called the
\* action once by the time it resolves if runOnSetup is not false and not at
\* all if it is false, and resolves with a fresh timer armed that has not
\* ticked; after that each elapsed period of an armed timer calls the action
\* exactly once, and only an armed timer ticks.
C16_IntervalRuns ==
  [][ /\ \A i \in DOMAIN invocations :
           ResolvesArmed(i) =>
             /\ invocations'[i].ran = IF runOnSetup = "false" THEN 0 ELSE 1
             /\ interval' \in DOMAIN timers'
             /\ timers'[interval'] = [armed |-> TRUE, ticks |-> 0]
      /\ \A h \in DOMAIN timers :
           timers'[h].ticks # timers[h].ticks =>
             /\ timers[h].armed
             /\ timers'[h].ticks = timers[h].ticks + 1
             /\ acted' = 1 ]_vars

C16_Witness ==
  /\ runOnSetup = "undefined"
  /\ \E i \in DOMAIN invocations :
       /\ invocations[i].outcome = "armed"
       /\ invocations[i].ran = 1
  /\ interval # Null
  /\ timers[interval].ticks = 2

\* run i resolves in this step with the given outcome
Resolves(i, outcome) ==
  /\ invocations[i].pc # "done"
  /\ invocations'[i].pc = "done"
  /\ invocations'[i].outcome = outcome

\* C17: a run of the interval callback whose condition does not hold clears
\* the armed timer, if there is one, and leaves no timer referenced; if none is
\* referenced it changes nothing; either way it creates no timer and does not
\* call the action, and a timer that has been cleared never ticks or is armed
\* again.
C17_ConditionFalse ==
  [][ /\ \A i \in DOMAIN invocations :
           /\ Resolves(i, "cleared") =>
                /\ interval # Null
                /\ timers' = [timers EXCEPT ![interval].armed = FALSE]
                /\ interval' = Null
                /\ acted' = 0
           /\ Resolves(i, "idle") =>
                /\ interval = Null
                /\ UNCHANGED << interval, timers >>
                /\ acted' = 0
      /\ \A h \in DOMAIN timers : ~timers[h].armed => timers'[h] = timers[h]
    ]_vars

C17_Witness ==
  /\ \E i, j \in DOMAIN invocations :
       /\ i < j
       /\ invocations[i].outcome = "cleared"
       /\ invocations[j].outcome = "idle"
  /\ \E h \in DOMAIN timers : timers[h].ticks > 0 /\ ~timers[h].armed

\* the runs of the interval callback that hold the lock
LockHolders ==
  {i \in DOMAIN invocations :
     \/ invocations[i].pc \in {"condition", "action"}
     \/ invocations[i].pc = "acquire" /\ mutex.holder = i}

\* C18: whatever calls of the callback and of cleanup were made, and wherever
\* runs of the callback are suspended, every timer created is the one that
\* `interval` refers to or has been cleared, so at most one timer is armed.
C18_AtMostOneTimer ==
  \A h \in DOMAIN timers : timers[h].armed => interval = h

C18_Witness ==
  /\ Len(timers) >= 2
  /\ interval = Len(timers)
  /\ timers[interval].armed
  /\ \E i \in DOMAIN invocations : invocations[i].pc \in {"condition", "action"}
  /\ \E i \in DOMAIN invocations :
       invocations[i].pc = "acquire" /\ mutex.holder # i

\* C19: at most one run of the interval callback is between acquiring and
\* releasing the lock, and a run that has not acquired it has not started.
C19_Serialized ==
  /\ Cardinality(LockHolders) <= 1
  /\ \A i \in LockHolders : mutex.holder = i
  /\ \A i \in DOMAIN invocations :
       i \notin LockHolders =>
         \/ invocations[i].pc = "done"
         \/ invocations[i].pc = "acquire" /\ invocations[i].ran = 0

C19_Witness ==
  /\ \E i \in DOMAIN invocations : invocations[i].pc = "action"
  /\ Len(mutex.waiting) >= 2

\* C20: a step in which the action fails, thrown or rejected, in the immediate
\* run or in a tick, logs the failure and lets nothing escape; a run whose
\* immediate action failed resolves with its timer armed, and a failed tick
\* leaves every armed timer armed.
C20_ActionFailureContained ==
  [][ failure' # "" =>
        /\ logged' = {"interval"}
        /\ thrown' = NoThrow
        /\ \A i \in DOMAIN invocations :
             (invocations[i].pc # "done" /\ invocations'[i].pc = "done") =>
               /\ failure' = "immediate"
               /\ invocations'[i].outcome = "armed"
               /\ interval' \in DOMAIN timers'
               /\ timers'[interval'].armed
        /\ failure' = "tick" => timers' = timers \/
             \E h \in DOMAIN timers :
               timers' = [timers EXCEPT ![h].ticks = @ + 1] /\ timers'[h].armed
    ]_vars

C20_Witness ==
  /\ failure = "tick"
  /\ logged = {"interval"}
  /\ \E i \in DOMAIN invocations :
       invocations[i].caught /\ invocations[i].outcome = "armed"
  /\ interval # Null
  /\ timers[interval].armed
  /\ timers[interval].ticks >= 1

\* cleanup has been called and the interval callback has not been called since
CleanedUp == cleanedAt = Len(invocations)

\* C21: once cleanup has returned and until the callback is called again, no
\* timer is armed and the action is not called, wherever the runs of the
\* callback made before the cleanup are suspended.
C21_CleanupLeavesIdle ==
  /\ [](CleanedUp => interval = Null /\ \A h \in DOMAIN timers : ~timers[h].armed)
  /\ [][CleanedUp /\ CleanedUp' => acted' = 0]_vars

\* ---- registerCallbacks' cleanup and createWatcherManager

\* the positions of the entries [op, who] in the log of a cleanup
LogPositions(log, op, who) ==
  {i \in 1..Len(log) : log[i] = [op |-> op, who |-> who]}

\* the ids under which the watchers hold a callback
RegisteredIds(all) ==
  (UNION {{all[w][i].id : i \in 1..Len(all[w])} : w \in WatcherIds}) \ {Removed.id}

\* a step that is a call of startAll or stopAll
ManagerCall == ops' = ops + 1 /\ store' = store

\* C22: a call of the cleanup function of registerCallbacks disposes each
\* config's aggregator once and before it calls that config's teardown, the
\* callback called by the dispose comes before the teardown too and receives
\* every event the aggregator had queued, and the ids passed to removeCallback
\* are the ids that were registered, which are `${callbackName}_${key}`.
C22_FlushBeforeTeardown ==
  [][ (ManagerCall /\ deregister # Null) =>
        /\ \A g \in AggIds :
             /\ Cardinality(LogPositions(cleanupLog', "dispose", g)) = 1
             /\ Cardinality(LogPositions(cleanupLog', "teardown", g)) = 1
             /\ \A i \in LogPositions(cleanupLog', "dispose", g) \cup
                         LogPositions(cleanupLog', "callback", g) :
                  \A j \in LogPositions(cleanupLog', "teardown", g) : i < j
             /\ flushScheduled[g] =>
                  /\ LogPositions(cleanupLog', "callback", g) # {}
                  /\ \A k \in DOMAIN queued[g] : delivered'[g][k] = queued[g][k]
        /\ {cleanupLog'[i].who :
              i \in {j \in 1..Len(cleanupLog') :
                       cleanupLog'[j].op = "removeCallback"}}
             = RegisteredIds(callbacks)
        /\ RegisteredIds(callbacks) =
             {g \o "_" \o k : g \in AggIds, k \in WatcherIds} \cap
             UNION {{MakeId(g, k) : k \in Declared(g)} : g \in AggIds}
    ]_vars

C22_Witness ==
  /\ deregister = Null
  /\ \E i \in 1..Len(cleanupLog) : cleanupLog[i] = [op |-> "callback", who |-> "g2"]
  /\ DOMAIN delivered["g2"] = {"a", "b"}
  /\ delivered["g2"]["b"].isInitial

\* C23: from the return of stopAll until the next startAll no reaction is
\* called, whatever was queued when stopAll was called and whatever store.set
\* calls follow.
C23_NoReactionAfterStop ==
  [][(deregister = Null /\ deregister' = Null) => reacted' = {}]_vars

\* C24: with the interval task's callback and cleanup as the callback and the
\* teardown of a config, from the return of stopAll until the next startAll no
\* timer of the task is armed and the action is not called, neither by a run of
\* the callback nor by a tick.
C24_StopAllStopsInterval ==
  /\ [](deregister = Null => \A h \in DOMAIN timers : ~timers[h].armed)
  /\ [][(deregister = Null /\ deregister' = Null) =>
          /\ \A i \in DOMAIN invocations : invocations'[i].ran = invocations[i].ran
          /\ \A h \in DOMAIN timers : timers'[h].ticks = timers[h].ticks]_vars

\* the first call made to the manager was startAll and no other call of user
\* code has followed: the watchers were not watching when it was made
FirstStart == ops = 1 /\ deregister # Null

\* C25: after startAll on watchers that were not watching, every reaction
\* called for the start receives a snapshot in which each declared watcher's
\* entry has isInitial = true (so that a config is called once: a second call
\* would carry an entry that is not initial), and once the microtasks have run
\* every config has been called.
C25_OneInitialSnapshot ==
  /\ [][(FirstStart /\ FirstStart') =>
          \A g \in reacted' : \A k \in Declared(g) : delivered'[g][k].isInitial]_vars
  /\ []((FirstStart /\ ~sync /\ mq = <<>>) =>
          \A g \in AggIds : DOMAIN delivered[g] = Declared(g))

\* the ids of the entries of a callbacks Map that have not been removed, in order
LiveIds(cbs) ==
  LET live == SelectSeq(cbs, LAMBDA e : e # Removed)
  IN [i \in 1..Len(live) |-> live[i].id]

\* one listener for each config that declares watcher w, and no other
OneListenerPerConfig(all) ==
  \A w \in WatcherIds :
    /\ \A i, j \in 1..Len(LiveIds(all[w])) :
         LiveIds(all[w])[i] = LiveIds(all[w])[j] => i = j
    /\ Range(LiveIds(all[w])) = {MakeId(g, w) : g \in {x \in AggIds : w \in Declared(x)}}

\* startAll has been called while started, and the watchers never stopped
Restarted ==
  /\ deregister # Null
  /\ cleanupLog # << >>
  /\ \A w \in WatcherIds : subCalls[w] = 1

\* C26: a call of startAll while started leaves every watcher with one
\* listener per config that declares it, keeps the subscriptions and produces
\* no event; after it, a synchronous run of user code that changes one atom is
\* followed by exactly one reaction of each config that declares the atom and
\* none of the others.
C26_RestartReplaces ==
  /\ [][(ManagerCall /\ deregister # Null /\ deregister' # Null) =>
          /\ OneListenerPerConfig(callbacks')
          /\ UNCHANGED << subCalls, listeners, unsubscribe, lastEvent >>]_vars
  /\ []((Restarted /\ ~sync /\ mq = <<>> /\ burst.pure) =>
          \A w \in WatcherIds :
            burst.changed = {w} =>
              \A g \in AggIds :
                burst.reactions[g] = IF w \in Declared(g) THEN 1 ELSE 0)

C26_Witness ==
  /\ Restarted
  /\ ~sync
  /\ mq = <<>>
  /\ burst.pure
  /\ burst.changed = {"a"}
  /\ burst.reactions = [g \in AggIds |-> 1]
  /\ \E i \in 1..Len(callbacks["a"]) : callbacks["a"][i] = Removed

\* the calls made to the manager were startAll, stopAll, startAll and no other
\* call of user code was made
StoppedAndStarted ==
  /\ ops = 3
  /\ deregister # Null
  /\ \A w \in WatcherIds : subCalls[w] = 2

\* C27: startAll on stopped watchers subscribes each of them anew and gives
\* its callbacks a fresh event with isInitial = true that carries the atom's
\* value; after stopAll and startAll a snapshot with an initial entry is an
\* initial snapshot, all its entries have isInitial = true (a config is not
\* handed its initial events in pieces).
C27_FreshInitialSnapshot ==
  /\ [][(ManagerCall /\ deregister' # Null) =>
          \A w \in WatcherIds :
            unsubscribe[w] = Null =>
              /\ subCalls'[w] = subCalls[w] + 1
              /\ unsubscribe'[w] = subCalls'[w]
              /\ lastEvent'[w] = MakeEvent(w, store[w], lastEvent'[w].previous, TRUE)]_vars
  /\ [][(StoppedAndStarted /\ StoppedAndStarted') =>
          \A g \in reacted' :
            (\E k \in Declared(g) : delivered'[g][k].isInitial) =>
              \A k \in Declared(g) : delivered'[g][k].isInitial]_vars

\* the registrations a Map holds after the first k registry calls of log:
\* the function registered under each id, "" for none
RECURSIVE RegisteredAfter(_, _)
RegisteredAfter(log, k) ==
  IF k = 0 THEN [id \in RegistryIds |-> ""]
  ELSE LET m == RegisteredAfter(log, k - 1)
           c == log[k]
       IN CASE c.op = "addCallback" -> [m EXCEPT ![c.id] = c.fn]
            [] c.op = "removeCallback" -> [m EXCEPT ![c.id] = ""]
            [] c.op = "removeAllCallbacks" -> [id \in RegistryIds |-> ""]
            [] OTHER -> m

\* the entries of cbs that hold a registration
LiveEntries(cbs) == {i \in 1..Len(cbs) : cbs[i] # Removed}

\* the function cbs holds under id, "" for none
RegisteredFn(cbs, id) ==
  IF \E i \in LiveEntries(cbs) : cbs[i].id = id
  THEN cbs[CHOOSE i \in LiveEntries(cbs) : cbs[i].id = id].fn
  ELSE ""

\* the position in log of the n-th dispatchEvent call
DispatchPosition(log, n) ==
  CHOOSE k \in 1..Len(log) :
    /\ log[k].op = "dispatchEvent"
    /\ Cardinality({j \in 1..k : log[j].op = "dispatchEvent"}) = n

\* no registry call changed the callbacks after position k of log
UnchangedSince(log, k) == \A j \in (k + 1)..Len(log) : log[j].op = "dispatchEvent"

\* C28: the callbacks of a watcher are a map from ids to functions: no id has
\* two registrations, the registrations are those a map holds after the same
\* calls (addCallback under a registered id replaces the function),
\* removeCallback(id) returned true exactly when id was registered, a dispatch
\* that has ended with the registry as it was at its start has invoked each
\* registered id once with the function registered, and every invocation is of
\* the function registered under its id when it is made.
C28_MapSemantics ==
  /\ [](\A w \in RegistryWatcherIds :
          LET cbs == callbacks[w]
              log == registryCalls
          IN /\ \A i, j \in LiveEntries(cbs) : cbs[i].id = cbs[j].id => i = j
             /\ \A id \in RegistryIds :
                  RegisteredFn(cbs, id) = RegisteredAfter(log, Len(log))[id]
             /\ \A k \in 1..Len(log) :
                  log[k].op = "removeCallback" =>
                    log[k].result = (RegisteredAfter(log, k - 1)[log[k].id] # "")
             /\ \A n \in 1..Len(dispatches) :
                  LET d == dispatches[n]
                      k == DispatchPosition(log, n)
                      m == RegisteredAfter(log, k)
                  IN (d.done /\ UnchangedSince(log, k)) =>
                       /\ \A i, j \in 1..Len(d.calls) : d.calls[i] = d.calls[j] => i = j
                       /\ {<< d.calls[i], d.fns[i] >> : i \in 1..Len(d.calls)} =
                            {<< id, m[id] >> : id \in {x \in RegistryIds : m[x] # ""}})
  /\ [][\A n \in 1..Len(dispatches') :
          LET d == dispatches'[n]
              before == IF n \in DOMAIN dispatches THEN Len(dispatches[n].calls) ELSE 0
          IN \A i \in (before + 1)..Len(d.calls) :
               RegisteredFn(callbacks[d.who], d.calls[i]) = d.fns[i]]_vars

\* addCallback has replaced the function registered under an id, and a dispatch
\* made afterwards has ended, having invoked two registered ids
C28_Witness ==
  /\ \E k \in 1..Len(registryCalls) :
       /\ registryCalls[k].op = "addCallback"
       /\ RegisteredAfter(registryCalls, k - 1)[registryCalls[k].id] \notin
            {"", registryCalls[k].fn}
  /\ dispatches # <<>>
  /\ dispatches[1].done
  /\ UnchangedSince(registryCalls, DispatchPosition(registryCalls, 1))
  /\ Len(dispatches[1].calls) = 2

\* C29: in every snapshot handed to a config's callback, an entry's isChanged
\* is true exactly when its current differs from its previous.
C29_IsChangedStrict ==
  \A g \in reacted :
    \A k \in Declared(g) :
      delivered[g][k].isChanged = (delivered[g][k].current # delivered[g][k].previous)

\* C30: the dispatches of one watcher do not overlap: a dispatch has invoked a
\* callback only when every earlier dispatch of the watcher has ended, all its
\* calls settled, so a listener that has been handed a later event has been
\* handed every earlier one.
C30_SequentialDispatch ==
  \A m, n \in 1..Len(dispatches) :
    (m < n /\ dispatches[m].who = dispatches[n].who /\ dispatches[n].calls # <<>>) =>
      /\ dispatches[m].done
      /\ dispatches[m].settled = Len(dispatches[m].calls)
      /\ Range(dispatches[n].calls) \subseteq Range(dispatches[m].calls)

\* run i's predicate fails in this step: options.condition throws when called,
\* or the promise it returned is rejected
ConditionFails(i) ==
  \/ Enter(i, "throw")
  \/ ConditionSettles(i, "reject", "pending")

\* C31: when the predicate of a run throws or rejects, the run gives the lock
\* up (it passes to the first waiting run, or is free), the timer held and
\* every timer's armed state stay as they were, the action is not called, and
\* the run ends with its promise rejected.
C31_ConditionFailure ==
  [][\A i \in 1..MaxOps :
       ConditionFails(i) =>
         /\ mutex'.holder # i
         /\ mutex' = IF mutex.waiting = <<>>
                     THEN [holder |-> 0, waiting |-> <<>>]
                     ELSE [holder |-> Head(mutex.waiting),
                           waiting |-> Tail(mutex.waiting)]
         /\ interval' = interval
         /\ timers' = timers
         /\ acted' = 0
         /\ invocations'[i].ran = 0
         /\ invocations'[i].pc = "done"
         /\ invocations'[i].outcome = "rejected"]_vars

\* a run was rejected while a timer was armed, the timer is still armed, and a
\* later run has taken the lock and called the condition
C31_Witness ==
  /\ interval # Null
  /\ timers[interval].armed
  /\ \E i, j \in DOMAIN invocations :
       /\ i < j
       /\ invocations[i].outcome = "armed"
       /\ \E k \in (i + 1)..(j - 1) : invocations[k].outcome = "rejected"
       /\ invocations[j].pc = "condition"
       /\ mutex.holder = j

\* C32: a flush whose reaction calls fanIn(event) while it executes hands the
\* reaction the snapshot of the turn that has ended, without that event; the
\* event is the only one buffered afterwards, the flag is set and exactly one
\* flush is queued; and every flush delivers what was buffered when it began,
\* so the next flush delivers the event.
C32_ReentrantFanIn ==
  [][/\ \A g \in DirectAggIds :
          \A event \in FanInEvents(g) :
            (RunFlushReentrant(event) /\ Head(mq).who = g) =>
              /\ delivered'[g] =
                   [k \in Declared(g) |->
                      SnapshotEntry(queued[g], lastValues[g], k, store)]
              /\ queued'[g] = MapSet(EmptyMap, event.id, event)
              /\ flushScheduled'[g]
              /\ PendingFlushes(g)' = 1
     /\ \A g \in reacted' :
          /\ \A k \in DOMAIN queued[g] : delivered'[g][k] = queued[g][k]
          /\ PendingFlushes(g)' = IF queued'[g] = EmptyMap THEN 0 ELSE 1]_vars

\* the reaction has just been handed a snapshot with a = 0 and has called fanIn
\* with a = 1 while it executed: that event waits for the flush queued for it
C32_Witness ==
  /\ ~sync
  /\ "g2" \in reacted
  /\ delivered["g2"]["a"].current = 0
  /\ MapHas(queued["g2"], "a")
  /\ queued["g2"]["a"].current = 1
  /\ PendingFlushes("g2") = 1

\* C33: whenever a timer is armed its tick can start the action, whoever holds
\* the lock and however many actions started by ticks are still in flight; the
\* tick leaves the lock alone and adds one action in flight.
C33_TicksNotSerialized ==
  /\ [](\A h \in DOMAIN timers :
          (timers[h].armed /\ ops < MaxOps) => ENABLED Tick(h, "pending"))
  /\ [][\A h \in DOMAIN timers :
          Tick(h, "pending") =>
            /\ mutex' = mutex
            /\ acted' = 1
            /\ ticking' = ticking + 1]_vars

\* two actions started by ticks are in flight while a run of the callback holds
\* the lock
C33_Witness ==
  /\ ticking = 2
  /\ mutex.holder # 0
  /\ invocations[mutex.holder].pc = "condition"

\* C34: the calls of a config's setup and teardown alternate, setup first: the
\* odd calls are setups and the even ones teardowns, so setups exceed teardowns
\* by 0 or 1; a stopAll made when nothing is registered calls no teardown.
C34_SetupTeardownAlternate ==
  /\ [](\A g \in AggIds :
          /\ \A i \in 1..Len(lifecycle[g]) :
               lifecycle[g][i] = IF i % 2 = 1 THEN "setup" ELSE "teardown"
          /\ (Len(lifecycle[g]) % 2 = 1) = (deregister # Null))
  /\ [][(ManagerCall /\ deregister = Null /\ deregister' = Null) =>
          lifecycle' = lifecycle]_vars

\* started, stopped, stopped again: each config has had one setup and one
\* teardown
C34_Witness ==
  /\ ops = 3
  /\ deregister = Null
  /\ \A w \in WatcherIds : subCalls[w] = 1
  /\ \A g \in AggIds : lifecycle[g] = << "setup", "teardown" >>

\* C35: while events are buffered the flush-scheduled flag is set and a flush
\* of the aggregator is in the microtask queue; a synchronous call that empties
\* a buffer that held events has invoked the reaction with each of them.
C35_BufferedImpliesScheduled ==
  /\ [](\A g \in AggIds :
          queued[g] # EmptyMap => flushScheduled[g] /\ PendingFlushes(g) >= 1)
  /\ [][\A g \in AggIds :
          (queued[g] # EmptyMap /\ queued'[g] = EmptyMap) =>
            /\ g \in reacted'
            /\ \A k \in DOMAIN queued[g] : delivered'[g][k] = queued[g][k]]_vars

\* fanIn was called after a dispose that had forced a flush: the event is
\* buffered, the flag is set again and a second flush is queued behind the one
\* left over
C35_Witness ==
  /\ sync
  /\ disposed["g2"]
  /\ queued["g2"] # EmptyMap
  /\ flushScheduled["g2"]
  /\ PendingFlushes("g2") = 2

\* C36: in a snapshot that is not the aggregator's first, an entry made from
\* a buffered event (isChanged = true) has as previous the current the
\* preceding snapshot of the aggregator carried for that id.
C36_PreviousChain ==
  [][\A g \in reacted' :
       delivered[g] # EmptyMap =>
         \A k \in Declared(g) :
           delivered'[g][k].isChanged =>
             delivered'[g][k].previous = delivered[g][k].current]_vars

\* C37: every function a dispatch invokes is registered under its id when it
\* is invoked: the last registry call that named the id, or cleared the
\* registry, is an addCallback of that function.  A function removed by
\* removeCallback or removeAllCallbacks is not invoked afterwards, by a
\* dispatch begun before the removal or after it.
C37_RemovedNeverInvoked ==
  [][\A n \in 1..Len(dispatches') :
       LET d == dispatches'[n]
           before == IF n \in DOMAIN dispatches THEN Len(dispatches[n].calls) ELSE 0
           m == RegisteredAfter(registryCalls, Len(registryCalls))
       IN \A i \in (before + 1)..Len(d.calls) : m[d.calls[i]] = d.fns[i]]_vars

\* a dispatch was suspended before it reached l2, removeCallback("l2") then
\* returned true, and the dispatch has ended without invoking l2
C37_Witness ==
  /\ Len(registryCalls) = 4
  /\ registryCalls[3].op = "dispatchEvent"
  /\ registryCalls[4] = RegistryCall("removeCallback", "l2", "", TRUE)
  /\ RegisteredAfter(registryCalls, 3)["l2"] # ""
  /\ dispatches[1].done
  /\ dispatches[1].calls = << "l1" >>

\* C38: a startWatching that throws because the source read failed leaves the
\* watcher as it was: no subscription is added or held; and a startWatching
\* returns without dispatching only on a watcher that has dispatched its
\* initial event.
C38_FailedStartLeavesIdle ==
  [][\A w \in WatcherIds :
       /\ thrown' = w =>
            /\ unsubscribe'[w] = unsubscribe[w]
            /\ listeners'[w] = listeners[w]
            /\ subCalls'[w] = subCalls[w]
       /\ noop' = [op |-> "startWatching", who |-> w] => lastEvent[w] # NoEvent]_vars

\* C39: when a flush invokes the reaction of an aggregator, no promise returned
\* by an earlier invocation of that reaction is still unsettled.
C39_ReactionsDoNotOverlap ==
  [][\A g \in reacted' : unsettled[g] = 0]_vars

====
